---- MODULE Spec2Model ----
(***************************************************************************)
(* Control plane of rcnbuild-paas: webhook intake, deployment store,       *)
(* build and deploy workers, container engine.                             *)
(***************************************************************************)
EXTENDS Integers, Sequences, FiniteSets, TLC

(* ------------------------------ bounds --------------------------------- *)
MaxProjects == 1
MaxRequests == 2
MaxFaults == 1

(* ------------------------- program constants --------------------------- *)
MaxRetry == 3

ProjIds == 1..MaxProjects
DepIds == 1..MaxRequests
\* a task is identified by its deployment and its rank among that
\* deployment's tasks, in the order they were enqueued
TasksPerDeployment == 3
TaskIds == DepIds \X (1..TasksPerDeployment)

Users == {"u1"}
Repos == {"acme/app"}
UnknownRepo == "acme/none"
Secrets == {"s1"}
Nonces == {1}
BaseDomain == "rcnbuild.dev"
RegistryURL == "localhost:5000"

(* ------------------------------ values --------------------------------- *)
\* a commit SHA: 40 hex characters, here a run of one digit
Hex(c) == [digit |-> c, len |-> 40]
\* sha[:k]
Prefix(sha, k) == [sha EXCEPT !.len = IF k < @ THEN k ELSE @]
ZeroSHA == Hex("0")
\* the head commit of the n-th push
CommitOf(n) ==
    Hex(<<"1", "2", "3", "4", "5", "6", "7", "8", "9", "a", "b", "c">>[n])

NullSecret == [kind |-> "null", v |-> "", nonce |-> 0]
Clear(s) == [kind |-> "hex", v |-> s, nonce |-> 0]

\* pkg/crypto: the sealed form carries the nonce and is never the cleartext
Encrypt(plaintext, n) == [kind |-> "sealed", v |-> plaintext.v, nonce |-> n]
Decrypt(ciphertext) ==
    IF ciphertext.kind = "sealed"
    THEN [err |-> FALSE, v |-> [kind |-> "hex", v |-> ciphertext.v, nonce |-> 0]]
    ELSE [err |-> TRUE, v |-> NullSecret]

HeadsRef(b) == [prefix |-> "refs/heads/", name |-> b]
BranchName(b) == [prefix |-> "", name |-> b]

NullImage == <<>>

NoRow ==
    [project_id |-> 0, commit_sha |-> ZeroSHA, status |-> "none",
     image_tag |-> NullImage, container_id |-> 0, url |-> <<>>,
     error_message |-> "", started_at |-> FALSE, completed_at |-> FALSE]

(* ------------------------------- text ---------------------------------- *)
\* a string whose characters matter is a sequence of one-character strings
LowerSeq ==
    <<"a", "b", "c", "d", "e", "f", "g", "h", "i", "j", "k", "l", "m", "n",
      "o", "p", "q", "r", "s", "t", "u", "v", "w", "x", "y", "z">>
UpperSeq ==
    <<"A", "B", "C", "D", "E", "F", "G", "H", "I", "J", "K", "L", "M", "N",
      "O", "P", "Q", "R", "S", "T", "U", "V", "W", "X", "Y", "Z">>
DigitSeq == <<"0", "1", "2", "3", "4", "5", "6", "7", "8", "9">>
Lower == {LowerSeq[i] : i \in DOMAIN LowerSeq}
Upper == {UpperSeq[i] : i \in DOMAIN UpperSeq}
Digit == {DigitSeq[i] : i \in DOMAIN DigitSeq}

ToLower(str) ==
    [i \in DOMAIN str |->
        IF str[i] \in Upper
        THEN LowerSeq[CHOOSE j \in DOMAIN UpperSeq : UpperSeq[j] = str[i]]
        ELSE str[i]]

\* strings.ReplaceAll for one-character old and new
ReplaceAll(str, old, new) ==
    [i \in DOMAIN str |-> IF str[i] = old THEN new ELSE str[i]]

SlugChar(c) == c \in Lower \cup Digit \cup {"-"}

\* regexp -+ replaced by "-"
RECURSIVE CollapseHyphens(_)
CollapseHyphens(str) ==
    IF Len(str) < 2 THEN str
    ELSE IF str[1] = "-" /\ str[2] = "-"
         THEN CollapseHyphens(Tail(str))
         ELSE <<str[1]>> \o CollapseHyphens(Tail(str))

\* strings.Trim(slug, "-")
RECURSIVE TrimLeft(_)
TrimLeft(str) ==
    IF str # <<>> /\ str[1] = "-" THEN TrimLeft(Tail(str)) ELSE str
RECURSIVE TrimRight(_)
TrimRight(str) ==
    IF str # <<>> /\ str[Len(str)] = "-"
    THEN TrimRight(SubSeq(str, 1, Len(str) - 1))
    ELSE str

MaxSlugLen == 50

\* the same steps with the length limited before the hyphens are trimmed
generateSlug_TruncateFirst(name) ==
    LET lowered == ToLower(name)
        hyphened == ReplaceAll(ReplaceAll(lowered, " ", "-"), "_", "-")
        cleaned == SelectSeq(hyphened, SlugChar)
        collapsed == CollapseHyphens(cleaned)
        limited == IF Len(collapsed) > MaxSlugLen
                   THEN SubSeq(collapsed, 1, MaxSlugLen) ELSE collapsed
    IN TrimRight(TrimLeft(limited))

\* internal/projects: generateSlug
generateSlug(name) ==
    LET lowered == ToLower(name)
        hyphened == ReplaceAll(ReplaceAll(lowered, " ", "-"), "_", "-")
        cleaned == SelectSeq(hyphened, SlugChar)
        collapsed == CollapseHyphens(cleaned)
        trimmed == TrimRight(TrimLeft(collapsed))
    IN IF Len(trimmed) > MaxSlugLen THEN SubSeq(trimmed, 1, MaxSlugLen)
       ELSE trimmed

randomSuffix ==
    LET chars == LowerSeq \o DigitSeq
    IN [i \in 1..4 |-> chars[((i - 1) % Len(chars)) + 1]]

NoSlug == <<>>

NoProject ==
    [user_id |-> "", slug |-> NoSlug, repo_full_name |-> "",
     branch |-> BranchName(""), port |-> 0, webhook_id |-> 0,
     webhook_secret |-> NullSecret]

VARIABLES
    projects,     \* projects table: ProjIds -> row (NoProject when absent)
    hooks,        \* webhooks registered on the source host
    deployments,  \* deployments table: DepIds -> row (NoRow when absent)
    tasks,        \* broker: TaskIds -> task (build and deploy queues)
    registry,     \* image tags pushed to the registry
    containers,   \* container engine: name -> container
    req,          \* the webhook request being served, and its response
    nreq,         \* webhook requests received
    faults,       \* failures of collaborators injected so far
    creating,     \* project-creation requests being served
    envs,         \* env_vars table: a set of rows
    api,          \* the management request served last, and its response
    call          \* pkg/crypto: the call made last, and what it returned

vars ==
    <<projects, hooks, deployments, tasks, registry, containers, req, nreq,
      faults, creating, envs, api, call>>

\* what the webhook intake and the workers leave alone
mgmtVars == <<creating, envs, api, call>>

(* ------------------------ internal/database ---------------------------- *)
\* every operation returns the table after the call and whether it erred

GetProjectByID(projs, id) ==
    IF id \in DOMAIN projs /\ projs[id] # NoProject
    THEN [err |-> FALSE, p |-> id] ELSE [err |-> TRUE, p |-> 0]

\* the rows a lookup by repository name can return
GetProjectByRepoFullName(projs, repo) ==
    {p \in DOMAIN projs : projs[p] # NoProject /\ projs[p].repo_full_name = repo}

SlugExists(projs, slug) ==
    \E p \in DOMAIN projs : projs[p] # NoProject /\ projs[p].slug = slug

\* the same update without the secret
SetProjectWebhook_IdOnly(projs, id, webhookID, secret) ==
    IF projs[id] = NoProject
    THEN [rows |-> projs, err |-> TRUE]
    ELSE [rows |-> [projs EXCEPT ![id].webhook_id = webhookID],
          err |-> FALSE]

SetProjectWebhook(projs, id, webhookID, secret) ==
    IF projs[id] = NoProject
    THEN [rows |-> projs, err |-> TRUE]
    ELSE [rows |-> [projs EXCEPT ![id].webhook_id = webhookID,
                                 ![id].webhook_secret = secret],
          err |-> FALSE]

CreateDeployment(rows, id, projectID, commitSHA) ==
    [rows EXCEPT ![id] = [NoRow EXCEPT !.project_id = projectID,
                                       !.commit_sha = commitSHA,
                                       !.status = "pending"]]

UpdateDeploymentStatus(rows, id, status, errorMsg) ==
    IF rows[id].status = "none"
    THEN [rows |-> rows, err |-> TRUE]
    ELSE [rows |-> [rows EXCEPT ![id].status = status,
                                ![id].error_message = errorMsg],
          err |-> FALSE]

StartDeploymentBuild(rows, id) ==
    IF rows[id].status = "none"
    THEN [rows |-> rows, err |-> TRUE]
    ELSE [rows |-> [rows EXCEPT ![id].status = "building",
                                ![id].started_at = TRUE],
          err |-> FALSE]

\* the same update without the image tag
SetDeploymentBuilt_StatusOnly(rows, id, imageTag) ==
    IF rows[id].status = "none"
    THEN [rows |-> rows, err |-> TRUE]
    ELSE [rows |-> [rows EXCEPT ![id].status = "deploying"], err |-> FALSE]

SetDeploymentBuilt(rows, id, imageTag) ==
    IF rows[id].status = "none"
    THEN [rows |-> rows, err |-> TRUE]
    ELSE [rows |-> [rows EXCEPT ![id].status = "deploying",
                                ![id].image_tag = imageTag],
          err |-> FALSE]

\* the same update of the status alone
SetDeploymentLive_StatusOnly(rows, id, containerID, url) ==
    IF rows[id].status = "none"
    THEN [rows |-> rows, err |-> TRUE]
    ELSE [rows |-> [rows EXCEPT ![id].status = "live",
                                ![id].completed_at = TRUE],
          err |-> FALSE]

SetDeploymentLive(rows, id, containerID, url) ==
    IF rows[id].status = "none"
    THEN [rows |-> rows, err |-> TRUE]
    ELSE [rows |-> [rows EXCEPT ![id].status = "live",
                                ![id].container_id = containerID,
                                ![id].url = url,
                                ![id].completed_at = TRUE],
          err |-> FALSE]

\* the same statement without AND id != $2
SupersededOldDeployments_NoExcept(rows, projectID, excludeDeploymentID) ==
    [d \in DOMAIN rows |->
        IF /\ rows[d].project_id = projectID
           /\ rows[d].status = "live"
        THEN [rows[d] EXCEPT !.status = "superseded", !.completed_at = TRUE]
        ELSE rows[d]]

SupersededOldDeployments(rows, projectID, excludeDeploymentID) ==
    [d \in DOMAIN rows |->
        IF /\ rows[d].project_id = projectID
           /\ rows[d].status = "live"
           /\ d # excludeDeploymentID
        THEN [rows[d] EXCEPT !.status = "superseded", !.completed_at = TRUE]
        ELSE rows[d]]

\* the same update without the completion timestamp
SetDeploymentFailed_NoTimestamp(rows, id, errorMsg) ==
    IF rows[id].status = "none"
    THEN [rows |-> rows, err |-> TRUE]
    ELSE [rows |-> [rows EXCEPT ![id].status = "failed",
                                ![id].error_message = errorMsg],
          err |-> FALSE]

SetDeploymentFailed(rows, id, errorMsg) ==
    IF rows[id].status = "none"
    THEN [rows |-> rows, err |-> TRUE]
    ELSE [rows |-> [rows EXCEPT ![id].status = "failed",
                                ![id].error_message = errorMsg,
                                ![id].completed_at = TRUE],
          err |-> FALSE]

CancelDeployment_AnyStatus(rows, id) ==
    IF rows[id].status = "none"
    THEN [rows |-> rows, err |-> TRUE]
    ELSE [rows |-> [rows EXCEPT ![id].status = "cancelled",
                                ![id].completed_at = TRUE],
          err |-> FALSE]

CancelDeployment(rows, id) ==
    IF rows[id].status \in {"pending", "building", "deploying"}
    THEN [rows |-> [rows EXCEPT ![id].status = "cancelled",
                                ![id].completed_at = TRUE],
          err |-> FALSE]
    ELSE [rows |-> rows, err |-> TRUE]

(* ------------------------- internal/webhooks --------------------------- *)
HMAC(key, payload) == [key |-> key, payload |-> payload]

\* header forms: absent, without the sha256= prefix, not hex, well-formed
ValidateSignature(payload, signatureHeader, secret) ==
    IF signatureHeader.form = "missing" THEN "ErrMissingSignature"
    ELSE IF signatureHeader.form = "noprefix" THEN "ErrInvalidSignature"
    ELSE IF signatureHeader.form = "badhex" THEN "ErrInvalidSignature"
    ELSE IF signatureHeader.mac # HMAC(secret, payload)
         THEN "ErrInvalidSignature"
    ELSE "ok"

GetBranch(e) ==
    IF e.ref.prefix = "refs/heads/" THEN BranchName(e.ref.name) ELSE e.ref

ShouldDeploy(e) ==
    IF e.deleted THEN FALSE
    ELSE IF ~e.head_commit THEN FALSE
    ELSE IF e.after = ZeroSHA THEN FALSE
    ELSE TRUE

(* --------------------------- initial state ----------------------------- *)
NoTask ==
    [kind |-> "none", pc |-> "none", retried |-> 0, dep |-> 0,
     project_id |-> 0, commit_sha |-> ZeroSHA, slug |-> NoSlug,
     image_tag |-> NullImage, port |-> 0, cid |-> 0, env |-> <<>>]

NoBody ==
    [json |-> FALSE, repo |-> "", ref |-> BranchName(""), deleted |-> FALSE,
     head_commit |-> FALSE, after |-> ZeroSHA, pad |-> 0]
NoMAC == HMAC(NullSecret, NoBody)
IdleReq ==
    [pc |-> "idle",
     in |-> [event |-> "", body |-> NoBody,
             sig |-> [form |-> "missing", mac |-> NoMAC]], n |-> 0, project |-> 0,
     branch |-> BranchName(""), port |-> 0, dep |-> 0, task |-> <<0, 0>>,
     resp |-> 0, msg |-> ""]

NoUser == ""
IdleCreate ==
    [pc |-> "idle", user |-> NoUser, repo |-> "", slug |-> NoSlug,
     secret |-> NullSecret, hook |-> 0, project |-> 0, resp |-> 0]
IdleApi ==
    [op |-> "none", user |-> NoUser, id |-> 0, key |-> <<>>,
     val |-> Clear(""), resp |-> 0, body |-> <<>>, teardown |-> 0, n |-> 0]
NoCall ==
    [fn |-> "none", key |-> <<>>, v |-> <<>>, sealed |-> <<>>,
     tamper |-> "none", pos |-> 0, out |-> [err |-> "", v |-> <<>>]]

Init ==
    /\ projects = [p \in ProjIds |-> NoProject]
    /\ hooks = {}
    /\ deployments = [d \in DepIds |-> NoRow]
    /\ tasks = [t \in TaskIds |-> NoTask]
    /\ registry = {}
    /\ containers = {}
    /\ req = IdleReq
    /\ nreq = 0
    /\ faults = 0
    /\ creating = [s \in ProjIds |-> IdleCreate]
    /\ envs = {}
    /\ api = IdleApi
    /\ call = NoCall

\* a collaborator (store, broker, source host, engine, registry) may fail
CanFail(k) == faults + k <= MaxFaults
Fault(ok) == faults' = IF ok THEN faults ELSE faults + 1

(* ------------------------- internal/projects --------------------------- *)
\* the loop of HandleCreateProject: append suffixes until the slug is free
RECURSIVE UniqueSlug(_, _)
UniqueSlug(projs, slug) ==
    IF SlugExists(projs, slug)
    THEN UniqueSlug(projs, slug \o <<"-">> \o randomSuffix)
    ELSE slug

Cost(flags) == Cardinality({i \in DOMAIN flags : ~flags[i]})

ParseRepoFullName(fullName) ==
    LET split == "acme/app" :> <<"acme", "app">>
                 @@ "corp/app" :> <<"corp", "app">>
                 @@ "acme/none" :> <<"acme", "none">>
                 @@ "acmeapp" :> <<"acmeapp">>
        parts == split[fullName]
    IN IF Len(parts) # 2 THEN [err |-> TRUE, owner |-> "", repo |-> ""]
       ELSE [err |-> FALSE, owner |-> parts[1], repo |-> parts[2]]

GetRepo(owner, repoName) ==
    IF <<owner, repoName>> \in {<<"acme", "app">>, <<"corp", "app">>}
    THEN [err |-> FALSE, Name |-> <<"a", "p", "p">>, DefaultBranch |-> "main"]
    ELSE [err |-> TRUE, Name |-> <<>>, DefaultBranch |-> ""]

\* the INSERT on a table without the UNIQUE constraint on slug
CreateProject_NoConstraint(projs, input) ==
    LET free == {p \in DOMAIN projs : projs[p] = NoProject}
        id == CHOOSE p \in free : \A q \in free : p <= q
    IN [err |-> FALSE, rows |-> [projs EXCEPT ![id] = input], id |-> id]

\* INSERT INTO projects; slug is UNIQUE NOT NULL, repo_full_name is not unique
CreateProject(projs, input) ==
    LET free == {p \in DOMAIN projs : projs[p] = NoProject}
        id == CHOOSE p \in free : \A q \in free : p <= q
    IN IF SlugExists(projs, input.slug)
       THEN [err |-> TRUE, rows |-> projs, id |-> 0]
       ELSE [err |-> FALSE, rows |-> [projs EXCEPT ![id] = input], id |-> id]

CreateDone(c, code) == [c EXCEPT !.pc = "done", !.resp = code]

\* POST /api/projects up to the registration of the webhook on the source
\* host: authentication, the repository, the check for an existing project
\* (a failed lookup counts as none), the slug, the secret and the webhook
HandleCreateProject(s, u, repo, name, reqSlug, secret, lookupOk, existsOk, secretOk, hookOk) ==
    LET parsed == ParseRepoFullName(repo)
        hostRepo == GetRepo(parsed.owner, parsed.repo)
        existing == IF lookupOk THEN GetProjectByRepoFullName(projects, repo)
                    ELSE {}
        projectName == IF name = <<>> THEN hostRepo.Name ELSE name
        candidate == IF reqSlug = <<>> THEN generateSlug(projectName)
                     ELSE reqSlug
        slug == IF existsOk THEN UniqueSlug(projects, candidate) ELSE candidate
        hid == Cardinality(hooks) + 1
        c == [IdleCreate EXCEPT !.user = u, !.repo = repo]
        early ==
            IF u = NoUser THEN 401
            ELSE IF parsed.err \/ hostRepo.err THEN 400
            ELSE IF existing # {} THEN 400
            ELSE IF ~secretOk THEN 500
            ELSE 0
    IN
    /\ creating[s].pc = "idle"
    /\ \E p \in DOMAIN projects : projects[p] = NoProject
    /\ CanFail(Cost(<<lookupOk, existsOk, secretOk, hookOk>>))
    /\ faults' = faults + Cost(<<lookupOk, existsOk, secretOk, hookOk>>)
    /\ (u = NoUser \/ parsed.err \/ hostRepo.err) =>
           (lookupOk /\ existsOk /\ secretOk /\ hookOk)
    /\ existing # {} => (existsOk /\ secretOk /\ hookOk)
    /\ ~secretOk => hookOk
    /\ IF early # 0
       THEN /\ creating' = [creating EXCEPT ![s] = CreateDone(IdleCreate, early)]
            /\ hooks' = hooks
       ELSE /\ creating' =
                [creating EXCEPT
                   ![s] = [c EXCEPT !.pc = "insert", !.slug = slug,
                                    !.secret = Clear(secret),
                                    !.hook = IF hookOk THEN hid ELSE 0]]
            /\ hooks' = IF hookOk
                        THEN hooks \cup {[id |-> hid, repo |-> repo,
                                          secret |-> Clear(secret)]}
                        ELSE hooks
    /\ UNCHANGED <<projects, deployments, tasks, registry, containers, req,
                   nreq, envs, api, call>>

\* the same step refusing a project whose webhook was not created
CreateProjectStep_RequireHook(s, insertOk) ==
    LET c == creating[s]
        input == [user_id |-> c.user, slug |-> c.slug,
                  repo_full_name |-> c.repo, branch |-> BranchName("main"),
                  port |-> 3000, webhook_id |-> 0,
                  webhook_secret |-> NullSecret]
        r == IF insertOk THEN CreateProject(projects, input)
             ELSE [err |-> TRUE, rows |-> projects, id |-> 0]
    IN
    /\ c.pc = "insert"
    /\ \E p \in DOMAIN projects : projects[p] = NoProject
    /\ CanFail(Cost(<<insertOk>>))
    /\ Fault(insertOk)
    /\ projects' = IF c.hook = 0 THEN projects ELSE r.rows
    /\ creating' =
         [creating EXCEPT
            ![s] = IF r.err \/ c.hook = 0 THEN CreateDone(c, 500)
                   ELSE [c EXCEPT !.pc = "webhook", !.project = r.id]]
    /\ UNCHANGED <<hooks, deployments, tasks, registry, containers, req,
                   nreq, envs, api, call>>

\* database.CreateProject: a failed insert is answered 500
CreateProjectStep(s, insertOk) ==
    LET c == creating[s]
        input == [user_id |-> c.user, slug |-> c.slug,
                  repo_full_name |-> c.repo, branch |-> BranchName("main"),
                  port |-> 3000, webhook_id |-> 0,
                  webhook_secret |-> NullSecret]
        r == IF insertOk THEN CreateProject(projects, input)
             ELSE [err |-> TRUE, rows |-> projects, id |-> 0]
    IN
    /\ c.pc = "insert"
    /\ \E p \in DOMAIN projects : projects[p] = NoProject
    /\ CanFail(Cost(<<insertOk>>))
    /\ Fault(insertOk)
    /\ projects' = r.rows
    /\ creating' =
         [creating EXCEPT
            ![s] = IF r.err THEN CreateDone(c, 500)
                   ELSE IF c.hook = 0
                        THEN CreateDone([c EXCEPT !.project = r.id], 201)
                        ELSE [c EXCEPT !.pc = "webhook", !.project = r.id]]
    /\ UNCHANGED <<hooks, deployments, tasks, registry, containers, req,
                   nreq, envs, api, call>>

\* the webhook's id and sealed secret are stored; failures are only logged
StoreWebhookStep(s, nonce, sealOk, storeOk) ==
    LET c == creating[s]
        sealed == Encrypt(c.secret, nonce)
    IN
    /\ c.pc = "webhook"
    /\ CanFail(Cost(<<sealOk, storeOk>>))
    /\ ~sealOk => storeOk
    /\ faults' = faults + Cost(<<sealOk, storeOk>>)
    /\ projects' = IF sealOk /\ storeOk
                   THEN SetProjectWebhook(projects, c.project, c.hook,
                                          sealed).rows
                   ELSE projects
    /\ creating' = [creating EXCEPT ![s] = CreateDone(c, 201)]
    /\ UNCHANGED <<hooks, deployments, tasks, registry, containers, req,
                   nreq, envs, api, call>>

\* the project-creation requests of users for repos under names and slugs
Creation(users, repos, names, slugs) ==
    \/ \E s \in DOMAIN creating, u \in users, repo \in repos, name \in names,
          reqSlug \in slugs, secret \in Secrets,
          lookupOk, existsOk, secretOk, hookOk \in BOOLEAN :
          HandleCreateProject(s, u, repo, name, reqSlug, secret, lookupOk,
                              existsOk, secretOk, hookOk)
    \/ \E s \in DOMAIN creating, insertOk \in BOOLEAN :
          CreateProjectStep(s, insertOk)
    \/ \E s \in DOMAIN creating, n \in Nonces, sealOk, storeOk \in BOOLEAN :
          StoreWebhookStep(s, n, sealOk, storeOk)

(* ---------------------- environment variables ------------------------ *)
\* "********" in the source is eight bullets
maskedValue == [kind |-> "mask", v |-> "********", nonce |-> 0]

\* a display that carries the decrypted value
ToDisplay_Cleartext(e) ==
    [id |-> e.id, key |-> e.key, value |-> Decrypt(e.value_encrypted).v,
     created_at |-> e.created_at]

ToDisplay(e) ==
    [id |-> e.id, key |-> e.key, value |-> maskedValue,
     created_at |-> e.created_at]
ToDisplayList(envVars) == [i \in DOMAIN envVars |-> ToDisplay(envVars[i])]

\* SELECT ... WHERE project_id = $1 ORDER BY created_at ASC
RECURSIVE OrderByCreatedAt(_)
OrderByCreatedAt(rows) ==
    IF rows = {} THEN <<>>
    ELSE LET first == CHOOSE e \in rows :
                          \A f \in rows : e.created_at <= f.created_at
         IN <<first>> \o OrderByCreatedAt(rows \ {first})
GetEnvVarsByProjectID(rows, projectID) ==
    OrderByCreatedAt({e \in rows : e.project_id = projectID})

\* the same INSERT without the ON CONFLICT clause and the constraint
CreateOrUpdateEnvVar_Append(rows, projectID, key, encryptedValue, now) ==
    LET e == [id |-> now, project_id |-> projectID, key |-> key,
              value_encrypted |-> encryptedValue, created_at |-> now]
    IN [rows |-> rows \cup {e}, e |-> e]

\* INSERT ... ON CONFLICT (project_id, key) DO UPDATE SET value_encrypted
CreateOrUpdateEnvVar(rows, projectID, key, encryptedValue, now) ==
    LET old == {e \in rows : e.project_id = projectID /\ e.key = key}
        e == IF old = {}
             THEN [id |-> now, project_id |-> projectID, key |-> key,
                   value_encrypted |-> encryptedValue, created_at |-> now]
             ELSE [(CHOOSE o \in old : TRUE) EXCEPT
                      !.value_encrypted = encryptedValue]
    IN [rows |-> (rows \ old) \cup {e}, e |-> e]

DeleteEnvVar(rows, projectID, key) ==
    LET old == {e \in rows : e.project_id = projectID /\ e.key = key}
    IN [err |-> old = {}, rows |-> rows \ old]

DeleteAllEnvVar(rows, projectID) == {e \in rows : e.project_id # projectID}

\* the map built for container injection; a later row of a key overwrites
\* an earlier one
GetEnvVarsAsMap(rows, projectID) ==
    LET decryptFn(c) == Decrypt(c)
        envVars == GetEnvVarsByProjectID(rows, projectID)
        keys == {envVars[i].key : i \in DOMAIN envVars}
        last(k) == CHOOSE i \in DOMAIN envVars :
                      /\ envVars[i].key = k
                      /\ \A j \in DOMAIN envVars :
                            envVars[j].key = k => j <= i
    IN IF \E i \in DOMAIN envVars : decryptFn(envVars[i].value_encrypted).err
       THEN [err |-> TRUE, result |-> <<>>]
       ELSE [err |-> FALSE,
             result |-> [k \in keys |->
                           decryptFn(envVars[last(k)].value_encrypted).v]]

\* the same test without the upper limit on the length
isValidEnvKey_NoLengthLimit(key) ==
    /\ Len(key) > 0
    /\ key[1] \in Upper \cup Lower
    /\ \A i \in 2..Len(key) : key[i] \in Upper \cup Lower \cup Digit \cup {"_"}

isValidEnvKey(key) ==
    /\ Len(key) > 0 /\ Len(key) <= 255
    /\ key[1] \in Upper \cup Lower
    /\ \A i \in 2..Len(key) : key[i] \in Upper \cup Lower \cup Digit \cup {"_"}

(* ------------------------- management API ------------------------------ *)
MaxApiRequests == 2

\* the same lines without the ownership test
Access_NoOwnerCheck(projs, u, id, lookupOk) ==
    IF u = NoUser THEN 401
    ELSE IF ~lookupOk \/ GetProjectByID(projs, id).err THEN 404
    ELSE 0

\* the first lines of every handler of /api/projects/:id: 401 without a
\* user, 404 when the lookup returns an error, 403 for another user's project
Access(projs, u, id, lookupOk) ==
    IF u = NoUser THEN 401
    ELSE IF ~lookupOk \/ GetProjectByID(projs, id).err THEN 404
    ELSE IF projs[id].user_id # u THEN 403
    ELSE 0

Answer(op, u, id, key, code, body) ==
    [op |-> op, user |-> u, id |-> id, key |-> key, val |-> Clear(""),
     resp |-> code, body |-> body, teardown |-> 0, n |-> api.n + 1]

\* WebhookID and WebhookSecret are json:"-"
ProjectJSON(row) ==
    [user_id |-> row.user_id, slug |-> row.slug,
     repo_full_name |-> row.repo_full_name, branch |-> row.branch,
     port |-> row.port]

\* GET /api/projects/:id
HandleGetProject(u, id, lookupOk) ==
    LET a == Access(projects, u, id, lookupOk)
    IN
    /\ api.n < MaxApiRequests
    /\ CanFail(Cost(<<lookupOk>>))
    /\ Fault(lookupOk)
    /\ api' = IF a # 0 THEN Answer("get", u, id, <<>>, a, <<>>)
              ELSE Answer("get", u, id, <<>>, 200,
                          <<ProjectJSON(projects[id])>>)
    /\ UNCHANGED <<projects, hooks, deployments, tasks, registry, containers,
                   req, nreq, creating, envs, call>>

\* UPDATE projects SET branch = COALESCE($3, branch), port = COALESCE($8, port)
UpdateProject(projs, id, branch, port) ==
    [projs EXCEPT ![id].branch = IF branch = BranchName("") THEN @ ELSE branch,
                  ![id].port = IF port = 0 THEN @ ELSE port]

\* PATCH /api/projects/:id
HandleUpdateProject(u, id, json, branch, port, lookupOk, updateOk) ==
    LET a == Access(projects, u, id, lookupOk)
        code == IF a # 0 THEN a
                ELSE IF ~json THEN 400
                ELSE IF ~updateOk THEN 500
                ELSE 200
        updated == UpdateProject(projects, id, branch, port)
    IN
    /\ api.n < MaxApiRequests
    /\ CanFail(Cost(<<lookupOk, updateOk>>))
    /\ (~lookupOk \/ a # 0 \/ ~json) => updateOk
    /\ faults' = faults + Cost(<<lookupOk, updateOk>>)
    /\ projects' = IF code = 200 THEN updated ELSE projects
    /\ api' = Answer("patch", u, id, <<>>, code,
                     IF code = 200 THEN <<ProjectJSON(updated[id])>>
                     ELSE <<>>)
    /\ UNCHANGED <<hooks, deployments, tasks, registry, containers, req, nreq,
                   creating, envs, call>>

DeleteDeploymentsByProjectID(rows, projectID) ==
    [d \in DOMAIN rows |->
        IF rows[d].project_id = projectID THEN NoRow ELSE rows[d]]

\* DELETE /api/projects/:id; the rows of deployments and env_vars that
\* reference the project go with it (ON DELETE CASCADE). teardown is the
\* webhook DeleteWebhook was called for, which needs the user's access token
HandleDeleteProject(u, id, lookupOk, tokenOk, hookOk, depsOk, envOk, deleteOk) ==
    LET a == Access(projects, u, id, lookupOk)
        project == projects[id]
        code == IF a # 0 THEN a ELSE IF ~deleteOk THEN 500 ELSE 200
        flags == <<lookupOk, tokenOk, hookOk, depsOk, envOk, deleteOk>>
        called == /\ project.webhook_id # 0
                  /\ tokenOk
                  /\ ~ParseRepoFullName(project.repo_full_name).err
    IN
    /\ api.n < MaxApiRequests
    /\ CanFail(Cost(flags))
    /\ (~lookupOk \/ a # 0) => (tokenOk /\ hookOk /\ depsOk /\ envOk /\ deleteOk)
    /\ (a = 0 /\ project.webhook_id = 0) => (tokenOk /\ hookOk)
    /\ ~tokenOk => hookOk
    /\ faults' = faults + Cost(flags)
    /\ api' = [Answer("delete", u, id, <<>>, code, <<>>)
                 EXCEPT !.teardown = IF a = 0 /\ called
                                     THEN project.webhook_id ELSE 0]
    /\ IF a # 0
       THEN UNCHANGED <<projects, hooks, deployments, envs>>
       ELSE /\ hooks' = IF called /\ hookOk
                        THEN {h \in hooks :
                                ~(h.id = project.webhook_id
                                  /\ h.repo = project.repo_full_name)}
                        ELSE hooks
            /\ deployments' = IF depsOk \/ deleteOk
                              THEN DeleteDeploymentsByProjectID(deployments, id)
                              ELSE deployments
            /\ envs' = IF envOk \/ deleteOk THEN DeleteAllEnvVar(envs, id)
                       ELSE envs
            /\ projects' = IF deleteOk THEN [projects EXCEPT ![id] = NoProject]
                           ELSE projects
    /\ UNCHANGED <<tasks, registry, containers, req, nreq, creating, call>>

\* GET /api/projects/:id/env
HandleListEnvVars(u, id, lookupOk, listOk) ==
    LET a == Access(projects, u, id, lookupOk)
        code == IF a # 0 THEN a ELSE IF ~listOk THEN 500 ELSE 200
    IN
    /\ api.n < MaxApiRequests
    /\ CanFail(Cost(<<lookupOk, listOk>>))
    /\ (~lookupOk \/ a # 0) => listOk
    /\ faults' = faults + Cost(<<lookupOk, listOk>>)
    /\ api' = Answer("list", u, id, <<>>, code,
                     IF code = 200
                     THEN ToDisplayList(GetEnvVarsByProjectID(envs, id))
                     ELSE <<>>)
    /\ UNCHANGED <<projects, hooks, deployments, tasks, registry, containers,
                   req, nreq, creating, envs, call>>

\* POST /api/projects/:id/env; key and value are binding:"required"
HandleCreateEnvVar(u, id, body, nonce, lookupOk, sealOk, upsertOk) ==
    LET a == Access(projects, u, id, lookupOk)
        code == IF a # 0 THEN a
                ELSE IF ~body.json \/ body.key = <<>> \/ body.value.v = ""
                     THEN 400
                ELSE IF ~isValidEnvKey(body.key) THEN 400
                ELSE IF ~sealOk \/ ~upsertOk THEN 500
                ELSE 201
        encryptedValue == Encrypt(body.value, nonce)
        r == CreateOrUpdateEnvVar(envs, id, body.key, encryptedValue,
                                  api.n + 1)
    IN
    /\ api.n < MaxApiRequests
    /\ CanFail(Cost(<<lookupOk, sealOk, upsertOk>>))
    /\ (code \in {401, 403, 404, 400}) => (sealOk /\ upsertOk)
    /\ ~sealOk => upsertOk
    /\ faults' = faults + Cost(<<lookupOk, sealOk, upsertOk>>)
    /\ envs' = IF code = 201 THEN r.rows ELSE envs
    /\ api' = [Answer("create", u, id, body.key, code,
                       IF code = 201 THEN <<ToDisplay(r.e)>> ELSE <<>>)
                  EXCEPT !.val = body.value]
    /\ UNCHANGED <<projects, hooks, deployments, tasks, registry, containers,
                   req, nreq, creating, call>>

\* DELETE /api/projects/:id/env/:key
HandleDeleteEnvVar(u, id, key, lookupOk, deleteOk) ==
    LET a == Access(projects, u, id, lookupOk)
        r == DeleteEnvVar(envs, id, key)
        code == IF a # 0 THEN a
                ELSE IF ~deleteOk THEN 500
                ELSE IF r.err THEN 404
                ELSE 200
    IN
    /\ api.n < MaxApiRequests
    /\ CanFail(Cost(<<lookupOk, deleteOk>>))
    /\ (~lookupOk \/ a # 0) => deleteOk
    /\ faults' = faults + Cost(<<lookupOk, deleteOk>>)
    /\ envs' = IF code = 200 THEN r.rows ELSE envs
    /\ api' = Answer("unset", u, id, key, code, <<>>)
    /\ UNCHANGED <<projects, hooks, deployments, tasks, registry, containers,
                   req, nreq, creating, call>>

(* ---------------------- webhook intake (handler) ----------------------- *)
Respond(r, n, code, msg) ==
    [IdleReq EXCEPT !.pc = "done", !.in = r, !.n = n, !.resp = code,
                    !.msg = msg]

\* the handler's decision for request r, numbered n, when the lookup by
\* repository name returned project p (0: no row, or the lookup failed)
WebhookOutcome(r, n, p) ==
    LET e == r.body
        project == projects[p]
    IN
    IF r.event # "push"
    THEN Respond(r, n, 200, "Event ignored")
    ELSE IF ~e.json
    THEN Respond(r, n, 400, "Invalid push event")
    ELSE IF p = 0
    THEN Respond(r, n, 200, "No associated project found")
    ELSE IF project.webhook_secret = NullSecret
    THEN Respond(r, n, 401, "Unauthorized")
    ELSE IF ValidateSignature(e, r.sig, project.webhook_secret) # "ok"
    THEN Respond(r, n, 401, "Unauthorized")
    ELSE IF ~ShouldDeploy(e)
    THEN Respond(r, n, 200, "Push event does not trigger deployment")
    ELSE IF GetBranch(e) # project.branch
    THEN Respond(r, n, 200,
                 "Push to non-configured branch, deployment skipped")
    ELSE [IdleReq EXCEPT !.pc = "create", !.in = r, !.n = n, !.project = p,
                         !.branch = GetBranch(e), !.port = project.port]

\* the rows the lookup can hand to the handler
Lookup(r, lookupOk) ==
    LET found == GetProjectByRepoFullName(projects, r.body.repo) IN
    IF r.event # "push" \/ ~r.body.json \/ ~lookupOk \/ found = {}
    THEN {0} ELSE found

HandleGitHubWebhook_InsertFirst(r, lookupOk) ==
    /\ req.pc = "idle"
    /\ nreq < MaxRequests
    /\ nreq' = nreq + 1
    /\ lookupOk \/ (CanFail(1) /\ r.event = "push" /\ r.body.json)
    /\ faults' = IF lookupOk THEN faults ELSE faults + 1
    /\ \E p \in Lookup(r, lookupOk) :
          /\ req' = WebhookOutcome(r, nreq', p)
          /\ deployments' =
               IF p # 0 /\ r.event = "push" /\ r.body.json
               THEN CreateDeployment(deployments, nreq', p, r.body.after)
               ELSE deployments
    /\ UNCHANGED mgmtVars
    /\ UNCHANGED <<projects, hooks, tasks, registry, containers>>

\* POST /api/webhooks/github, up to the decision to create a deployment
HandleGitHubWebhook(r, lookupOk) ==
    /\ req.pc = "idle"
    /\ nreq < MaxRequests
    /\ nreq' = nreq + 1
    /\ lookupOk \/ (CanFail(1) /\ r.event = "push" /\ r.body.json)
    /\ faults' = IF lookupOk THEN faults ELSE faults + 1
    /\ \E p \in Lookup(r, lookupOk) : req' = WebhookOutcome(r, nreq', p)
    /\ UNCHANGED mgmtVars
    /\ UNCHANGED <<projects, hooks, deployments, tasks, registry, containers>>

\* CreateDeployment; the insert fails when the project row is gone
CreateDeploymentStep(ok) ==
    LET e == req.in.body IN
    /\ req.pc = "create"
    /\ ok \/ CanFail(1)
    /\ IF ok /\ ~GetProjectByID(projects, req.project).err
       THEN /\ deployments' = CreateDeployment(deployments, req.n,
                                               req.project, e.after)
            /\ req' = [req EXCEPT !.pc = "enqueue", !.dep = req.n]
            /\ faults' = faults
       ELSE /\ req' = [req EXCEPT !.pc = "done", !.resp = 500,
                                  !.msg = "Failed to create deployment"]
            /\ faults' = IF ok THEN faults ELSE faults + 1
            /\ UNCHANGED deployments
    /\ UNCHANGED mgmtVars
    /\ UNCHANGED <<projects, hooks, tasks, registry, containers,
                   nreq>>

FreeTasks(d) == {t \in TaskIds : t[1] = d /\ tasks[t] = NoTask}
NewTaskId(d) == CHOOSE t \in FreeTasks(d) : \A u \in FreeTasks(d) : t[2] <= u[2]

NewBuildTask(deploymentID, projectID, commitSHA, port) ==
    [NoTask EXCEPT !.kind = "build", !.pc = "queued", !.dep = deploymentID,
                   !.project_id = projectID, !.commit_sha = commitSHA,
                   !.port = port]

NewDeployTask(deploymentID, projectID, slug, imageTag, port) ==
    [NoTask EXCEPT !.kind = "deploy", !.pc = "queued", !.dep = deploymentID,
                   !.project_id = projectID, !.slug = slug,
                   !.image_tag = imageTag, !.port = port]

\* the same step answering 202 whether or not the task was enqueued
EnqueueBuildStep_AlwaysAccepted(ok) ==
    /\ req.pc = "enqueue"
    /\ ok \/ CanFail(1)
    /\ IF ok /\ FreeTasks(req.dep) # {}
       THEN /\ tasks' = [tasks EXCEPT ![NewTaskId(req.dep)] =
                           NewBuildTask(req.dep, req.project,
                                        req.in.body.after, req.port)]
            /\ req' = [req EXCEPT !.pc = "done", !.task = NewTaskId(req.dep),
                                  !.resp = 202, !.msg = "Deployment created"]
            /\ faults' = faults
       ELSE /\ req' = [req EXCEPT !.pc = "done", !.resp = 202,
                                  !.msg = "Deployment created"]
            /\ faults' = IF ok THEN faults ELSE faults + 1
            /\ UNCHANGED tasks
    /\ UNCHANGED mgmtVars
    /\ UNCHANGED <<projects, hooks, deployments, registry, containers, nreq>>

\* EnqueueBuild and the response
EnqueueBuildStep(ok) ==
    /\ req.pc = "enqueue"
    /\ ok \/ CanFail(1)
    /\ IF ok /\ FreeTasks(req.dep) # {}
       THEN /\ tasks' = [tasks EXCEPT ![NewTaskId(req.dep)] =
                           NewBuildTask(req.dep, req.project,
                                        req.in.body.after, req.port)]
            /\ req' = [req EXCEPT !.pc = "done", !.task = NewTaskId(req.dep),
                                  !.resp = 202, !.msg = "Deployment created"]
            /\ faults' = faults
       ELSE /\ req' = [req EXCEPT !.pc = "done", !.resp = 500,
                                  !.msg = "Failed to enqueue build job"]
            /\ faults' = IF ok THEN faults ELSE faults + 1
            /\ UNCHANGED tasks
    /\ UNCHANGED mgmtVars
    /\ UNCHANGED <<projects, hooks, deployments, registry, containers, nreq>>

\* the handler returns and the server is ready for the next request
HandlerReturn ==
    /\ req.pc = "done"
    /\ req' = IdleReq
    /\ UNCHANGED mgmtVars
    /\ UNCHANGED <<projects, hooks, deployments, tasks, registry, containers,
                   nreq, faults>>

(* ------------------------- webhook requests ---------------------------- *)
MaxDeviations == 2

Keys ==
    {Clear(s) : s \in Secrets \cup {"s9"}}
        \cup {Encrypt(Clear(s), n) : s \in Secrets, n \in Nonces}

\* every delivery that differs in at most MaxDeviations respects from a push
\* of a commit to the branch main of a known repository, signed by the
\* source host
AllRequests ==
    LET PushBodies ==
            [json : BOOLEAN, repo : Repos \cup {UnknownRepo},
             ref : {HeadsRef("main"), HeadsRef("dev"),
                    [prefix |-> "refs/tags/", name |-> "main"]},
             deleted : BOOLEAN, head_commit : BOOLEAN,
             after : {CommitOf(1), ZeroSHA}, pad : {0}]
        Signatures(b) ==
            {[form |-> f, mac |-> NoMAC] :
                f \in {"missing", "noprefix", "badhex"}}
                \cup {[form |-> "ok", mac |-> HMAC(k, sb)] :
                         k \in Keys, sb \in {b, [b EXCEPT !.pad = 1 - @]}}
        Deviations(r) ==
            Cardinality({i \in 1..8 :
                \/ i = 1 /\ r.event # "push"
                \/ i = 2 /\ ~r.body.json
                \/ i = 3 /\ r.body.repo \notin Repos
                \/ i = 4 /\ r.body.ref # HeadsRef("main")
                \/ i = 5 /\ r.body.deleted
                \/ i = 6 /\ ~r.body.head_commit
                \/ i = 7 /\ r.body.after = ZeroSHA
                \/ i = 8 /\ ~(/\ r.sig.form = "ok"
                              /\ r.sig.mac.payload = r.body
                              /\ r.sig.mac.key \in {Clear(s) : s \in Secrets})})
    IN {r \in UNION {{[event |-> ev, body |-> b, sig |-> sg] :
                          ev \in {"push", "ping"}, sg \in Signatures(b)} :
                      b \in PushBodies} : Deviations(r) <= MaxDeviations}

(* --------------------------- broker (asynq) ---------------------------- *)
\* a handler that returns an error is retried until MaxRetry is used up
ReturnError(task) ==
    IF task.retried < MaxRetry
    THEN [task EXCEPT !.pc = "queued", !.retried = @ + 1, !.cid = 0,
                      !.env = <<>>]
    ELSE [task EXCEPT !.pc = "archived", !.cid = 0, !.env = <<>>]

ReturnNil(task) ==
    [task EXCEPT !.pc = "completed", !.cid = 0, !.env = <<>>]

(* ---------------------------- build worker ----------------------------- *)
ImageTag(task) == <<RegistryURL, task.project_id, Prefix(task.commit_sha, 8)>>

\* failBuild / failDeploy: the result of SetDeploymentFailed is dropped
failBuild(rows, deploymentID, message, failOk) ==
    IF failOk THEN SetDeploymentFailed(rows, deploymentID, message).rows
    ELSE rows

failDeploy(rows, deploymentID, message, failOk) ==
    IF failOk THEN SetDeploymentFailed(rows, deploymentID, message).rows
    ELSE rows

BuildMessage(step) ==
    CASE step = "mkdir" -> "failed to create build directory"
      [] step = "clone" -> "failed to clone repository"
      [] step = "dockerfile" -> "failed to write Dockerfile"
      [] step = "image" -> "failed to build container image"
      [] step = "push" -> "failed to push container image"

\* HandleBuildTask: StartDeploymentBuild
BuildStart(t, ok) ==
    LET task == tasks[t]
        r == StartDeploymentBuild(deployments, task.dep)
    IN
    /\ task.kind = "build" /\ task.pc = "queued"
    /\ ok \/ CanFail(1)
    /\ Fault(ok)
    /\ IF ok /\ ~r.err
       THEN /\ deployments' = r.rows
            /\ tasks' = [tasks EXCEPT ![t].pc = "work"]
       ELSE /\ tasks' = [tasks EXCEPT ![t] = ReturnError(task)]
            /\ UNCHANGED deployments
    /\ UNCHANGED mgmtVars
    /\ UNCHANGED <<projects, hooks, registry, containers, req, nreq>>

\* HandleBuildTask: work directory, clone, Dockerfile, image build; the
\* first of them that fails ends the task through failBuild
BuildWork(t, failed, failOk) ==
    LET task == tasks[t] IN
    /\ task.kind = "build" /\ task.pc = "work"
    /\ CanFail(Cost(<<failed = "", failOk>>))
    /\ failed = "" => failOk
    /\ faults' = faults + Cost(<<failed = "", failOk>>)
    /\ IF failed = ""
       THEN /\ tasks' = [tasks EXCEPT ![t].pc = "push"]
            /\ UNCHANGED deployments
       ELSE /\ deployments' = failBuild(deployments, task.dep,
                                        BuildMessage(failed), failOk)
            /\ tasks' = [tasks EXCEPT ![t] = ReturnError(task)]
    /\ UNCHANGED mgmtVars
    /\ UNCHANGED <<projects, hooks, registry, containers, req, nreq>>

\* HandleBuildTask: pushImage
BuildPush(t, ok, failOk) ==
    LET task == tasks[t] IN
    /\ task.kind = "build" /\ task.pc = "push"
    /\ CanFail(Cost(<<ok, failOk>>))
    /\ ok => failOk
    /\ faults' = faults + Cost(<<ok, failOk>>)
    /\ IF ok
       THEN /\ tasks' = [tasks EXCEPT ![t].pc = "setbuilt"]
            /\ registry' = registry \cup {ImageTag(task)}
            /\ UNCHANGED deployments
       ELSE /\ deployments' = failBuild(deployments, task.dep,
                                        BuildMessage("push"), failOk)
            /\ tasks' = [tasks EXCEPT ![t] = ReturnError(task)]
            /\ UNCHANGED registry
    /\ UNCHANGED mgmtVars
    /\ UNCHANGED <<projects, hooks, containers, req, nreq>>

\* HandleBuildTask: SetDeploymentBuilt
BuildSetBuilt(t, ok) ==
    LET task == tasks[t]
        r == SetDeploymentBuilt(deployments, task.dep, ImageTag(task))
    IN
    /\ task.kind = "build" /\ task.pc = "setbuilt"
    /\ ok \/ CanFail(1)
    /\ Fault(ok)
    /\ IF ok /\ ~r.err
       THEN /\ deployments' = r.rows
            /\ tasks' = [tasks EXCEPT ![t].pc = "enqueue"]
       ELSE /\ tasks' = [tasks EXCEPT ![t] = ReturnError(task)]
            /\ UNCHANGED deployments
    /\ UNCHANGED mgmtVars
    /\ UNCHANGED <<projects, hooks, registry, containers, req, nreq>>

\* HandleBuildTask: GetProjectByID, EnqueueDeploy and return
BuildEnqueue(t, getOk, enqueueOk) ==
    LET task == tasks[t]
        r == GetProjectByID(projects, task.project_id)
    IN
    /\ task.kind = "build" /\ task.pc = "enqueue"
    /\ CanFail(Cost(<<getOk, enqueueOk>>))
    /\ ~getOk => enqueueOk
    /\ faults' = faults + Cost(<<getOk, enqueueOk>>)
    /\ IF getOk /\ ~r.err /\ enqueueOk /\ FreeTasks(task.dep) # {}
       THEN tasks' = [tasks EXCEPT
                ![t] = ReturnNil(task),
                ![NewTaskId(task.dep)] = NewDeployTask(task.dep, task.project_id,
                                             projects[r.p].slug,
                                             ImageTag(task), task.port)]
       ELSE tasks' = [tasks EXCEPT ![t] = ReturnError(task)]
    /\ UNCHANGED mgmtVars
    /\ UNCHANGED <<projects, hooks, deployments, registry, containers, req,
                   nreq>>

(* ------------------------- container engine ---------------------------- *)
ContainerName(slug) == <<"rcn", slug>>
DeployURL(slug, baseDomain) == <<"https", slug, baseDomain>>

\* stopAndRemove: every container carrying the name is stopped and removed
stopAndRemove(cs, name) == {c \in cs : c.name # name}

Deploy(cs, images, name, imageTag, envVars, cid, outcome) ==
    IF outcome = "pull" \/ imageTag \notin images
    THEN [cs |-> cs, id |-> 0, err |-> TRUE]
    ELSE IF outcome = "create" \/ (\E c \in cs : c.name = name)
    THEN [cs |-> cs, id |-> 0, err |-> TRUE]
    ELSE IF outcome = "start"
    THEN [cs |-> cs \cup {[name |-> name, id |-> cid, image |-> imageTag,
                           env |-> envVars, running |-> FALSE]},
          id |-> 0, err |-> TRUE]
    ELSE [cs |-> cs \cup {[name |-> name, id |-> cid, image |-> imageTag,
                           env |-> envVars, running |-> TRUE]},
          id |-> cid, err |-> FALSE]

\* the engine hands out a fresh identifier for every container it creates
NewContainerID(t, task) ==
    ((t[1] - 1) * TasksPerDeployment + t[2]) * (MaxRetry + 1) + task.retried

(* ---------------------------- deploy worker ---------------------------- *)
\* HandleDeployTask: UpdateDeploymentStatus(deploying)
DeployStart(t, ok) ==
    LET task == tasks[t]
        r == UpdateDeploymentStatus(deployments, task.dep, "deploying", "")
    IN
    /\ task.kind = "deploy" /\ task.pc = "queued"
    /\ ok \/ CanFail(1)
    /\ Fault(ok)
    /\ IF ok /\ ~r.err
       THEN /\ deployments' = r.rows
            /\ tasks' = [tasks EXCEPT ![t].pc = "env"]
       ELSE /\ tasks' = [tasks EXCEPT ![t] = ReturnError(task)]
            /\ UNCHANGED deployments
    /\ UNCHANGED mgmtVars
    /\ UNCHANGED <<projects, hooks, registry, containers, req, nreq>>

\* fmt.Sprintf("%d", n)
RECURSIVE SprintfD(_)
SprintfD(n) ==
    IF n < 0 THEN <<"-">> \o SprintfD(0 - n)
    ELSE IF n < 10 THEN <<DigitSeq[n + 1]>>
    ELSE SprintfD(n \div 10) \o <<DigitSeq[(n % 10) + 1]>>

\* HandleDeployTask: GetEnvVarsAsMap, then envVars["PORT"] = the port
DeployEnv(t, ok, failOk) ==
    LET task == tasks[t]
        r == GetEnvVarsAsMap(envs, task.project_id)
        envVars == [k \in DOMAIN r.result \cup {<<"P", "O", "R", "T">>} |->
                      IF k = <<"P", "O", "R", "T">>
                      THEN Clear(SprintfD(task.port))
                      ELSE r.result[k]]
    IN
    /\ task.kind = "deploy" /\ task.pc = "env"
    /\ CanFail(Cost(<<ok, failOk>>))
    /\ ok => failOk
    /\ faults' = faults + Cost(<<ok, failOk>>)
    /\ IF ok /\ ~r.err
       THEN /\ tasks' = [tasks EXCEPT ![t].pc = "stop", ![t].env = envVars]
            /\ UNCHANGED deployments
       ELSE /\ deployments' = failDeploy(deployments, task.dep,
                   "failed to fetch environment variables", failOk)
            /\ tasks' = [tasks EXCEPT ![t] = ReturnError(task)]
    /\ UNCHANGED mgmtVars
    /\ UNCHANGED <<projects, hooks, registry, containers, req, nreq>>

\* containers.Deploy: stopAndRemove; a failure to list is only logged
DeployStop(t, ok) ==
    LET task == tasks[t] IN
    /\ task.kind = "deploy" /\ task.pc = "stop"
    /\ ok \/ CanFail(1)
    /\ Fault(ok)
    /\ containers' = IF ok
                     THEN stopAndRemove(containers, ContainerName(task.slug))
                     ELSE containers
    /\ tasks' = [tasks EXCEPT ![t].pc = "run"]
    /\ UNCHANGED mgmtVars
    /\ UNCHANGED <<projects, hooks, deployments, registry, req,
                   nreq>>

\* containers.Deploy: pull, create, start; failDeploy on error
DeployRun(t, outcome, failOk) ==
    LET task == tasks[t]
        r == Deploy(containers, registry, ContainerName(task.slug),
                    task.image_tag, task.env, NewContainerID(t, task),
                    outcome)
    IN
    /\ task.kind = "deploy" /\ task.pc = "run"
    /\ CanFail(Cost(<<outcome = "ok", failOk>>))
    /\ outcome = "ok" => failOk
    /\ faults' = faults + Cost(<<outcome = "ok", failOk>>)
    /\ containers' = r.cs
    /\ IF ~r.err
       THEN /\ tasks' = [tasks EXCEPT ![t].pc = "supersede", ![t].cid = r.id]
            /\ UNCHANGED deployments
       ELSE /\ deployments' = failDeploy(deployments, task.dep,
                   "failed to deploy container", failOk)
            /\ tasks' = [tasks EXCEPT ![t] = ReturnError(task)]
    /\ UNCHANGED mgmtVars
    /\ UNCHANGED <<projects, hooks, registry, req, nreq>>

\* HandleDeployTask: SupersededOldDeployments
DeploySupersede(t, ok) ==
    LET task == tasks[t] IN
    /\ task.kind = "deploy" /\ task.pc = "supersede"
    /\ ok \/ CanFail(1)
    /\ Fault(ok)
    /\ IF ok
       THEN /\ deployments' = SupersededOldDeployments(deployments,
                                  task.project_id, task.dep)
            /\ tasks' = [tasks EXCEPT ![t].pc = "setlive"]
       ELSE /\ tasks' = [tasks EXCEPT ![t] = ReturnError(task)]
            /\ UNCHANGED deployments
    /\ UNCHANGED mgmtVars
    /\ UNCHANGED <<projects, hooks, registry, containers, req, nreq>>

\* HandleDeployTask: SetDeploymentLive and return
DeploySetLive(t, ok) ==
    LET task == tasks[t]
        r == SetDeploymentLive(deployments, task.dep, task.cid,
                               DeployURL(task.slug, BaseDomain))
    IN
    /\ task.kind = "deploy" /\ task.pc = "setlive"
    /\ ok \/ CanFail(1)
    /\ Fault(ok)
    /\ IF ok /\ ~r.err
       THEN /\ deployments' = r.rows
            /\ tasks' = [tasks EXCEPT ![t] = ReturnNil(task)]
       ELSE /\ tasks' = [tasks EXCEPT ![t] = ReturnError(task)]
            /\ UNCHANGED deployments
    /\ UNCHANGED mgmtVars
    /\ UNCHANGED <<projects, hooks, registry, containers, req, nreq>>

(* ------------------------------- cancel -------------------------------- *)
\* a user cancels a deployment: database.CancelDeployment
Cancel(d) ==
    /\ deployments' = CancelDeployment(deployments, d).rows
    /\ UNCHANGED mgmtVars
    /\ UNCHANGED <<projects, hooks, tasks, registry, containers,
                   req, nreq, faults>>

(* ---------------------------- specification ---------------------------- *)
\* pushes the workers are exercised with: well-formed, for a known
\* repository, signed under any key, to the tracked or another branch,
\* the n-th of them carrying the n-th commit
PipelineRequests(n) ==
    {[event |-> "push",
      body |-> [json |-> TRUE, repo |-> repo, ref |-> HeadsRef(br),
                deleted |-> FALSE, head_commit |-> TRUE,
                after |-> CommitOf(n), pad |-> 0],
      sig |-> [form |-> "ok",
               mac |-> HMAC(k, [json |-> TRUE, repo |-> repo,
                                ref |-> HeadsRef(br), deleted |-> FALSE,
                                head_commit |-> TRUE, after |-> CommitOf(n),
                                pad |-> 0])]] :
        repo \in Repos, br \in {"main", "dev"}, k \in Keys}

Intake(requests) ==
    \/ Creation(Users, Repos, {<<>>}, {<<>>})
    \/ \E r \in requests, ok \in BOOLEAN : HandleGitHubWebhook(r, ok)
    \/ \E ok \in BOOLEAN : CreateDeploymentStep(ok)
    \/ \E ok \in BOOLEAN : EnqueueBuildStep(ok)
    \/ HandlerReturn

BuildSteps ==
    \/ \E t \in TaskIds, ok \in BOOLEAN : BuildStart(t, ok)
    \/ \E t \in TaskIds, f \in {"mkdir", "clone", "dockerfile", "image", ""}, failOk \in BOOLEAN :
          BuildWork(t, f, failOk)
    \/ \E t \in TaskIds, ok, failOk \in BOOLEAN : BuildPush(t, ok, failOk)
    \/ \E t \in TaskIds, ok \in BOOLEAN : BuildSetBuilt(t, ok)
    \/ \E t \in TaskIds, getOk, enqueueOk \in BOOLEAN :
          BuildEnqueue(t, getOk, enqueueOk)

DeploySteps ==
    \/ \E t \in TaskIds, ok \in BOOLEAN : DeployStart(t, ok)
    \/ \E t \in TaskIds, ok, failOk \in BOOLEAN : DeployEnv(t, ok, failOk)
    \/ \E t \in TaskIds, ok \in BOOLEAN : DeployStop(t, ok)
    \/ \E t \in TaskIds, o \in {"ok", "pull", "create", "start"}, failOk \in BOOLEAN :
          DeployRun(t, o, failOk)
    \/ \E t \in TaskIds, ok \in BOOLEAN : DeploySupersede(t, ok)
    \/ \E t \in TaskIds, ok \in BOOLEAN : DeploySetLive(t, ok)

Next ==
    \/ Intake(PipelineRequests(nreq + 1))
    \/ BuildSteps
    \/ DeploySteps
    \/ \E d \in DepIds : Cancel(d)

Spec == Init /\ [][Next]_vars

\* the pipeline, and the owner deleting the project while it runs
NextDelete ==
    \/ Next
    \/ \E u \in Users, id \in ProjIds,
          ok, tokenOk, hookOk, depsOk, envOk, deleteOk \in BOOLEAN :
          HandleDeleteProject(u, id, ok, tokenOk, hookOk, depsOk, envOk,
                              deleteOk)

SpecDelete == Init /\ [][NextDelete]_vars

\* the intake alone, under every request
SpecIntake == Init /\ [][Intake(AllRequests)]_vars

InitRetry ==
    /\ projects = [p \in ProjIds |-> NoProject]
    /\ hooks = {}
    /\ deployments = [d \in DepIds |-> NoRow]
    /\ tasks = [t \in TaskIds |-> NoTask]
    /\ registry = {}
    /\ containers = {}
    /\ req = IdleReq
    /\ nreq = 0
    /\ faults = MaxFaults - (MaxRetry + 1)
    /\ creating = [s \in ProjIds |-> IdleCreate]
    /\ envs = {}
    /\ api = IdleApi
    /\ call = NoCall

\* one push and the tasks it leads to, no cancel
NextRetry ==
    \/ Intake(IF nreq = 0 THEN PipelineRequests(1) ELSE {})
    \/ BuildSteps
    \/ DeploySteps

SpecRetry == InitRetry /\ [][NextRetry]_vars

\* no collaborator fails; the server and the workers keep taking steps
InitLive ==
    /\ projects = [p \in ProjIds |-> NoProject]
    /\ hooks = {}
    /\ deployments = [d \in DepIds |-> NoRow]
    /\ tasks = [t \in TaskIds |-> NoTask]
    /\ registry = {}
    /\ containers = {}
    /\ req = IdleReq
    /\ nreq = 0
    /\ faults = MaxFaults
    /\ creating = [s \in ProjIds |-> IdleCreate]
    /\ envs = {}
    /\ api = IdleApi
    /\ call = NoCall

NextLive ==
    \/ Intake(PipelineRequests(nreq + 1))
    \/ BuildSteps
    \/ DeploySteps

SpecLive == InitLive /\ [][NextLive]_vars /\ WF_vars(NextLive)

(* ------------------------- the store alone ----------------------------- *)

\* the row of deployment d of project p after history h
RowAs(h, d, p) ==
    LET sha == CommitOf(d)
        img == <<RegistryURL, p, Prefix(sha, 8)>>
        slug == GetRepo("acme", "app").Name
        t0 == [x \in {d} |-> NoRow]
        t1 == CreateDeployment(t0, d, p, sha)
        t2 == StartDeploymentBuild(t1, d).rows
        t3 == SetDeploymentBuilt(t2, d, img).rows
        t4 == SetDeploymentLive(t3, d, d, DeployURL(slug, BaseDomain)).rows
    IN
    CASE h = "none" -> t0[d]
      [] h = "pending" -> t1[d]
      [] h = "building" -> t2[d]
      [] h = "deploying" -> t3[d]
      [] h = "live" -> t4[d]
      [] h = "superseded" -> SupersededOldDeployments(t4, p, 0)[d]
      [] h = "failedBuild" ->
            SetDeploymentFailed(t2, d,
                                "failed to build container image").rows[d]
      [] h = "failedDeploy" ->
            SetDeploymentFailed(t3, d, "failed to deploy container").rows[d]
      [] h = "cancelled" -> CancelDeployment(t1, d).rows[d]

\* the projects of the tables the store is exercised on
StoreProjects == 1..(MaxProjects + 1)
Histories ==
    {"none", "pending", "building", "deploying", "live", "superseded",
     "failedBuild", "failedDeploy", "cancelled"}

InitStore ==
    /\ projects = [p \in ProjIds |-> NoProject]
    /\ hooks = {}
    /\ deployments \in {[d \in DepIds |-> RowAs(h[d], d, p[d])] :
                            h \in [DepIds -> Histories],
                            p \in [DepIds -> StoreProjects]}
    /\ tasks = [t \in TaskIds |-> NoTask]
    /\ registry = {}
    /\ containers = {}
    /\ req = IdleReq
    /\ nreq = 0
    /\ faults = 0
    /\ creating = [s \in ProjIds |-> IdleCreate]
    /\ envs = {}
    /\ api = IdleApi
    /\ call = NoCall

\* one call of database.SupersededOldDeployments; the statement either runs
\* or fails as a whole
SupersedeCall(p, except, ok) ==
    /\ call.fn = "none"
    /\ deployments' = IF ok
                      THEN SupersededOldDeployments(deployments, p, except)
                      ELSE deployments
    /\ call' = [fn |-> "SupersededOldDeployments", project |-> p,
                except |-> except, err |-> ~ok, before |-> deployments]
    /\ UNCHANGED <<projects, hooks, tasks, registry, containers, req, nreq,
                   faults, creating, envs, api>>

NextStore ==
    \/ \E d \in DepIds : Cancel(d)
    \/ \E p \in StoreProjects, except \in DepIds \cup {0}, ok \in BOOLEAN :
          SupersedeCall(p, except, ok)

\* database.CancelDeployment and database.SupersededOldDeployments on every
\* table
SpecStore == InitStore /\ [][NextStore]_vars

(* ------------------------ the deploy worker alone ---------------------- *)
\* a project with a port and environment variables, the image of its first
\* deployment in the registry and the deploy task of that deployment queued
InitDeploy ==
    \E port \in {3000, 8080}, n \in Nonces,
       vars0 \in SUBSET {[at |-> 1, key |-> <<"A">>, value |-> <<"v">>],
                         [at |-> 2, key |-> <<"P", "O", "R", "T">>,
                          value |-> <<"9", "0", "0", "0">>]} :
       LET slug == GetRepo("acme", "app").Name
           input == [user_id |-> "u1", slug |-> slug,
                     repo_full_name |-> "acme/app",
                     branch |-> BranchName("main"), port |-> port,
                     webhook_id |-> 0, webhook_secret |-> NullSecret]
           created == CreateProject([p \in ProjIds |-> NoProject], input)
           row == RowAs("deploying", 1, created.id)
       IN
       /\ projects = created.rows
       /\ hooks = {}
       /\ deployments = [d \in DepIds |-> IF d = 1 THEN row ELSE NoRow]
       /\ tasks = [t \in TaskIds |->
                     IF t = <<1, 2>>
                     THEN NewDeployTask(1, created.id, slug, row.image_tag,
                                        port)
                     ELSE NoTask]
       /\ registry = {row.image_tag}
       /\ containers = {}
       /\ req = IdleReq
       /\ nreq = 0
       /\ faults = 0
       /\ creating = [s \in ProjIds |-> IdleCreate]
       /\ envs = {[id |-> v.at, project_id |-> created.id, key |-> v.key,
                   value_encrypted |-> Encrypt(Clear(v.value), n),
                   created_at |-> v.at] : v \in vars0}
       /\ api = IdleApi
       /\ call = NoCall

SpecDeploy == InitDeploy /\ [][DeploySteps]_vars

(* ----------------------- the management API alone ---------------------- *)
OtherUser == "u2"
MissingProject == 0
EnvKeys == {<<"A">>, <<"B", "_", "1">>}
EnvValues == {Clear("v1"), Clear("v2")}
EnvBodies ==
    {[json |-> TRUE, key |-> k, value |-> v] : k \in EnvKeys, v \in EnvValues}
    \cup {[json |-> TRUE, key |-> <<"1", "A">>, value |-> Clear("v1")],
          [json |-> TRUE, key |-> <<>>, value |-> Clear("v1")],
          [json |-> TRUE, key |-> <<"A">>, value |-> Clear("")],
          [json |-> FALSE, key |-> <<>>, value |-> Clear("")]}

\* one project as HandleCreateProject leaves it, with deployments as the
\* pipeline leaves them and no environment variable or one written earlier
InitApi ==
    \E u \in Users, repo \in Repos, secret \in Secrets, n \in Nonces,
       h \in {"none", "building", "live"}, written \in BOOLEAN :
       LET input == [user_id |-> u, slug |-> GetRepo("acme", "app").Name,
                     repo_full_name |-> repo, branch |-> BranchName("main"),
                     port |-> 3000, webhook_id |-> 0,
                     webhook_secret |-> NullSecret]
           created == CreateProject([p \in ProjIds |-> NoProject], input)
           stored == SetProjectWebhook(created.rows, created.id, 1,
                                       Encrypt(Clear(secret), n)).rows
       IN
       /\ created.id = 1
       /\ projects = stored
       /\ hooks = {[id |-> 1, repo |-> repo, secret |-> Clear(secret)]}
       /\ deployments = [d \in DepIds |-> RowAs(h, d, 1)]
       /\ tasks = [t \in TaskIds |-> NoTask]
       /\ registry = {}
       /\ containers = {}
       /\ req = IdleReq
       /\ nreq = 0
       /\ faults = 0
       /\ creating = [s \in ProjIds |-> IdleCreate]
       /\ envs = IF written
                 THEN CreateOrUpdateEnvVar({}, created.id, <<"A">>,
                                           Encrypt(Clear("v1"), n), 0).rows
                 ELSE {}
       /\ api = IdleApi
       /\ call = NoCall

NextApi ==
    \E u \in Users \cup {OtherUser, NoUser},
       id \in ProjIds \cup {MissingProject} :
       \/ \E ok \in BOOLEAN : HandleGetProject(u, id, ok)
       \/ \E json, ok, updateOk \in BOOLEAN,
             branch \in {BranchName(""), BranchName("dev")},
             port \in {0, 8080} :
             HandleUpdateProject(u, id, json, branch, port, ok, updateOk)
       \/ \E ok, tokenOk, hookOk, depsOk, envOk, deleteOk \in BOOLEAN :
             HandleDeleteProject(u, id, ok, tokenOk, hookOk, depsOk, envOk,
                                 deleteOk)
       \/ \E ok, listOk \in BOOLEAN : HandleListEnvVars(u, id, ok, listOk)
       \/ \E body \in EnvBodies, n \in Nonces, ok, sealOk, upsertOk \in BOOLEAN :
             HandleCreateEnvVar(u, id, body, n, ok, sealOk, upsertOk)
       \/ \E key \in EnvKeys, ok, deleteOk \in BOOLEAN :
             HandleDeleteEnvVar(u, id, key, ok, deleteOk)

SpecApi == InitApi /\ [][NextApi]_vars

(* ------------------- the keys of environment variables ----------------- *)
\* POST /api/projects/:id/env under keys at the limits of the format
NextEnvKeys ==
    \E u \in Users \cup {OtherUser}, id \in ProjIds, n \in Nonces,
       key \in {<<>>, <<"A">>, <<"a", "_", "1">>, <<"1", "A">>, <<"_", "A">>,
                <<"A", "-">>, <<"A", " ">>, [i \in 1..255 |-> "k"],
                [i \in 1..(255 + 1) |-> "k"]},
       lookupOk, sealOk, upsertOk \in BOOLEAN :
       HandleCreateEnvVar(u, id,
                          [json |-> TRUE, key |-> key, value |-> Clear("v1")],
                          n, lookupOk, sealOk, upsertOk)

SpecEnvKeys == InitApi /\ [][NextEnvKeys]_vars

(* ------------------------- pkg/crypto alone ---------------------------- *)
\* strings are sequences of bytes 0..255 here; a base64 string is a sequence
\* of sextets 0..63 with Pad for '='
ByteMod == 256
Pad == 64
NonceSize == 12
TagSize == 16
KeySize == 32

\* q[:k] and q[k:]
Take(q, k) == [i \in 1..(IF k < Len(q) THEN k ELSE Len(q)) |-> q[i]]
Drop(q, k) == [i \in 1..(Len(q) - k) |-> q[i + k]]

RECURSIVE Sum(_)
Sum(q) == IF q = <<>> THEN 0 ELSE Head(q) + Sum(Tail(q))

\* base64.StdEncoding.EncodeToString
RECURSIVE EncodeToString(_)
EncodeToString(data) ==
    IF Len(data) = 0 THEN <<>>
    ELSE IF Len(data) = 1
         THEN <<data[1] \div 4, (data[1] % 4) * 16, Pad, Pad>>
    ELSE IF Len(data) = 2
         THEN <<data[1] \div 4, (data[1] % 4) * 16 + data[2] \div 16,
                (data[2] % 16) * 4, Pad>>
    ELSE <<data[1] \div 4, (data[1] % 4) * 16 + data[2] \div 16,
           (data[2] % 16) * 4 + data[3] \div 64, data[3] % 64>>
         \o EncodeToString(Drop(data, 3))

\* base64.StdEncoding.DecodeString: padded, not strict about trailing bits
RECURSIVE DecodeGroups(_)
DecodeGroups(str) ==
    IF str = <<>> THEN <<>>
    ELSE LET b1 == str[1] * 4 + str[2] \div 16
             b2 == (str[2] % 16) * 16 + str[3] \div 4
             b3 == (str[3] % 4) * 64 + str[4]
             rest == Drop(str, 4)
         IN IF str[3] = Pad THEN <<b1>>
            ELSE IF str[4] = Pad THEN <<b1, b2>>
            ELSE <<b1, b2, b3>> \o DecodeGroups(rest)
DecodeString(str) ==
    LET n == Len(str)
        wellFormed ==
            /\ n % 4 = 0
            /\ \A i \in 1..n :
                  \/ str[i] \in 0..63
                  \/ str[i] = Pad /\ i = n
                  \/ str[i] = Pad /\ i = n - 1 /\ str[n] = Pad
            /\ n > 0 => (str[n - 3] # Pad /\ str[n - 2] # Pad)
    IN IF wellFormed THEN [err |-> FALSE, data |-> DecodeGroups(str)]
       ELSE [err |-> TRUE, data |-> <<>>]

\* initGCM: the key is the first 32 bytes of ENCRYPTION_KEY
initGCM(key) ==
    IF key = <<>> THEN [gcmErr |-> "ErrKeyNotSet", keyBytes |-> <<>>]
    ELSE IF Len(key) < KeySize
         THEN [gcmErr |-> "ErrKeyTooShort", keyBytes |-> <<>>]
    ELSE [gcmErr |-> "", keyBytes |-> Take(key, KeySize)]

\* cipher.AEAD stands for AES-256-GCM: a keystream cipher and a keyed tag
\* over nonce and ciphertext, which Open verifies before it decrypts
KeyStream(keyBytes, nonce, i) == (Sum(keyBytes) + Sum(nonce) + 7 * i) % ByteMod
Tag(keyBytes, nonce, ct) ==
    [j \in 1..TagSize |->
        (Sum(keyBytes) + 3 * Sum(nonce) + Sum(ct) + j) % ByteMod]
Seal(keyBytes, nonce, plaintext) ==
    LET ct == [i \in DOMAIN plaintext |->
                 (plaintext[i] + KeyStream(keyBytes, nonce, i)) % ByteMod]
    IN ct \o Tag(keyBytes, nonce, ct)
\* an Open that decrypts without verifying the tag
Open_Unverified(keyBytes, nonce, encryptedData) ==
    LET n == Len(encryptedData) - TagSize
        ct == Take(encryptedData, n)
    IN IF n < 0 THEN [err |-> TRUE, plaintext |-> <<>>]
       ELSE [err |-> FALSE,
             plaintext |-> [i \in 1..n |->
                 (ct[i] + ByteMod - KeyStream(keyBytes, nonce, i)) % ByteMod]]

Open(keyBytes, nonce, encryptedData) ==
    LET n == Len(encryptedData) - TagSize
        ct == Take(encryptedData, n)
        tag == Drop(encryptedData, n)
    IN IF n < 0 \/ tag # Tag(keyBytes, nonce, ct)
       THEN [err |-> TRUE, plaintext |-> <<>>]
       ELSE [err |-> FALSE,
             plaintext |-> [i \in 1..n |->
                 (ct[i] + ByteMod - KeyStream(keyBytes, nonce, i)) % ByteMod]]

\* crypto.Encrypt on bytes, with the nonce rand.Reader returned
EncryptBytes(key, plaintext, nonce) ==
    LET g == initGCM(key)
    IN IF g.gcmErr # "" THEN [err |-> g.gcmErr, v |-> <<>>]
       ELSE [err |-> "",
             v |-> EncodeToString(nonce \o Seal(g.keyBytes, nonce, plaintext))]

\* crypto.Decrypt on bytes
DecryptBytes(key, ciphertext) ==
    LET g == initGCM(key)
        decoded == DecodeString(ciphertext)
        data == decoded.data
        nonce == Take(data, NonceSize)
        encryptedData == Drop(data, NonceSize)
        opened == Open(g.keyBytes, nonce, encryptedData)
    IN IF g.gcmErr # "" THEN [err |-> g.gcmErr, v |-> <<>>]
       ELSE IF decoded.err THEN [err |-> "ErrInvalidData", v |-> <<>>]
       ELSE IF Len(data) < NonceSize THEN [err |-> "ErrInvalidData", v |-> <<>>]
       ELSE IF opened.err THEN [err |-> "ErrDecryptionFail", v |-> <<>>]
       ELSE [err |-> "", v |-> opened.plaintext]

MaxTextLen == 2

\* the strings handed to Decrypt for a sealed string: itself, every
\* alteration of one byte, truncations, and a string that is not base64
Forgeries(sealed) ==
    LET data == DecodeString(sealed).data
        Deltas == {1, ByteMod \div 2, ByteMod - 1}
        Alter(pos, delta) == [data EXCEPT ![pos] = (@ + delta) % ByteMod]
    IN {[tamper |-> "none", pos |-> 0, str |-> sealed]}
       \cup {[tamper |-> "byte", pos |-> pos,
              str |-> EncodeToString(Alter(pos, delta))] :
                pos \in DOMAIN data, delta \in Deltas}
       \cup {[tamper |-> "cut", pos |-> k,
              str |-> EncodeToString(Take(data, k))] :
                k \in {0, NonceSize - 1, NonceSize, Len(data) - 1}
                       \cap (0..Len(data))}
       \cup {[tamper |-> "garble", pos |-> 1, str |-> <<Pad + 1>> \o sealed]}

CryptoCall(fn, key, v, sealed, tamper, pos, out) ==
    [fn |-> fn, key |-> key, v |-> v, sealed |-> sealed, tamper |-> tamper,
     pos |-> pos, out |-> out]

InitCrypto ==
    /\ projects = [p \in ProjIds |-> NoProject]
    /\ hooks = {}
    /\ deployments = [d \in DepIds |-> NoRow]
    /\ tasks = [t \in TaskIds |-> NoTask]
    /\ registry = {}
    /\ containers = {}
    /\ req = IdleReq
    /\ nreq = 0
    /\ faults = 0
    /\ creating = [s \in ProjIds |-> IdleCreate]
    /\ envs = {}
    /\ api = IdleApi
    /\ \E key \in {<<>>, [i \in 1..(KeySize - 1) |-> i],
                    [i \in 1..KeySize |-> i],
                    [i \in 1..(KeySize + 8) |-> 2 * i]} :
          call = CryptoCall("none", key, <<>>, <<>>, "none", 0,
                            [err |-> "", v |-> <<>>])

EncryptCall(v, nonce) ==
    LET out == EncryptBytes(call.key, v, nonce)
    IN
    /\ call' = CryptoCall("Encrypt", call.key, v, out.v, "none", 0, out)
    /\ UNCHANGED <<projects, hooks, deployments, tasks, registry, containers,
                   req, nreq, faults, creating, envs, api>>

DecryptCall(f) ==
    /\ call.fn = "Encrypt"
    /\ call' = CryptoCall("Decrypt", call.key, call.v, call.sealed, f.tamper,
                          f.pos, DecryptBytes(call.key, f.str))
    /\ UNCHANGED <<projects, hooks, deployments, tasks, registry, containers,
                   req, nreq, faults, creating, envs, api>>

NextCrypto ==
    \/ \E v \in UNION {[1..n -> {0, ByteMod - 1}] : n \in 0..MaxTextLen},
          nonce \in {[i \in 1..NonceSize |-> 0],
                     [i \in 1..NonceSize |-> 20 * i]} :
          EncryptCall(v, nonce)
    \/ \E f \in Forgeries(call.sealed) : DecryptCall(f)

SpecCrypto == InitCrypto /\ [][NextCrypto]_vars

(* ----------------------- project creation alone ------------------------ *)
MaxCreates == 2

InitProjects ==
    /\ projects = [p \in 1..MaxCreates |-> NoProject]
    /\ hooks = {}
    /\ deployments = [d \in DepIds |-> NoRow]
    /\ tasks = [t \in TaskIds |-> NoTask]
    /\ registry = {}
    /\ containers = {}
    /\ req = IdleReq
    /\ nreq = 0
    /\ faults = 0
    /\ creating = [s \in 1..MaxCreates |-> IdleCreate]
    /\ envs = {}
    /\ api = IdleApi
    /\ call = NoCall

NextProjects ==
    Creation(Users \cup {OtherUser, NoUser},
             {"acme/app", "corp/app", UnknownRepo, "acmeapp"},
             {<<>>, <<"-", "M", "y", "_", " ", "A", "p", "p", "!">>,
              <<"1", "2", "3">>, <<"!", "!">>,
              [i \in 1..(MaxSlugLen + 1) |-> "a"]},
             {<<>>, <<"A", "p", "p">>})

SpecProjects == InitProjects /\ [][NextProjects]_vars

(* -------------------------- runtime detection -------------------------- *)
\* a path is the sequence of the strings it is concatenated from
joinPath(base, file) == IF base = "" THEN <<file>> ELSE <<base, "/", file>>

\* GET /repos/{owner}/{repo}/contents/{path}: status 200 means the file is
\* there; a request that fails returns (false, error)
FileExists(files, down, path) ==
    [exists |-> path \in files /\ path \notin down, err |-> path \in down]

RuntimeInfo(runtime, buildCommand, startCommand, port) ==
    [Runtime |-> runtime, BuildCommand |-> buildCommand,
     StartCommand |-> startCommand, Port |-> port]

detectNodeJSRuntime(files, down, checkPath) ==
    LET Has(f) == FileExists(files, down, joinPath(checkPath, f)).exists
        packageManager == IF Has("pnpm-lock.yaml") THEN "pnpm"
                          ELSE IF Has("yarn.lock") THEN "yarn"
                          ELSE IF Has("bun.lockb") THEN "bun"
                          ELSE "npm"
        runCmd == IF Has("pnpm-lock.yaml") THEN "pnpm"
                  ELSE IF Has("yarn.lock") THEN "yarn"
                  ELSE IF Has("bun.lockb") THEN "bun run"
                  ELSE "npm run"
    IN IF \/ Has("next.config.js") \/ Has("next.config.mjs")
          \/ Has("next.config.ts")
       THEN RuntimeInfo("nodejs",
                        <<packageManager, " install && ", runCmd, " build">>,
                        <<runCmd, " start">>, 3000)
       ELSE IF Has("vite.config.js") \/ Has("vite.config.ts")
       THEN RuntimeInfo("nodejs",
                        <<packageManager, " install && ", runCmd, " build">>,
                        <<runCmd, " preview">>, 4173)
       ELSE RuntimeInfo("nodejs", <<packageManager, " install">>,
                        <<runCmd, " start">>, 3000)

\* the same probes with go.mod tried before the Python files
DetectRuntime_GoFirst(files, down, rootDir) ==
    LET checkPath == IF rootDir = "." \/ rootDir = "" THEN "" ELSE rootDir
        Has(f) == FileExists(files, down, joinPath(checkPath, f)).exists
    IN IF Has("Dockerfile") THEN RuntimeInfo("docker", <<>>, <<>>, 3000)
       ELSE IF Has("package.json")
       THEN detectNodeJSRuntime(files, down, checkPath)
       ELSE IF Has("go.mod")
       THEN RuntimeInfo("go", <<"go build -o app .">>, <<"./app">>, 8080)
       ELSE IF Has("requirements.txt")
       THEN RuntimeInfo("python", <<"pip install -r requirements.txt">>,
                        <<"python app.py">>, 8000)
       ELSE IF Has("pyproject.toml")
       THEN RuntimeInfo("python", <<"pip install .">>, <<"python -m app">>,
                        8000)
       ELSE IF Has("Pipfile")
       THEN RuntimeInfo("python", <<"pipenv install">>,
                        <<"pipenv run python app.py">>, 8000)
       ELSE IF Has("index.html") THEN RuntimeInfo("static", <<>>, <<>>, 80)
       ELSE RuntimeInfo("unknown", <<>>, <<>>, 3000)

DetectRuntime(files, down, rootDir) ==
    LET checkPath == IF rootDir = "." \/ rootDir = "" THEN "" ELSE rootDir
        Has(f) == FileExists(files, down, joinPath(checkPath, f)).exists
    IN IF Has("Dockerfile") THEN RuntimeInfo("docker", <<>>, <<>>, 3000)
       ELSE IF Has("package.json")
       THEN detectNodeJSRuntime(files, down, checkPath)
       ELSE IF Has("requirements.txt")
       THEN RuntimeInfo("python", <<"pip install -r requirements.txt">>,
                        <<"python app.py">>, 8000)
       ELSE IF Has("pyproject.toml")
       THEN RuntimeInfo("python", <<"pip install .">>, <<"python -m app">>,
                        8000)
       ELSE IF Has("Pipfile")
       THEN RuntimeInfo("python", <<"pipenv install">>,
                        <<"pipenv run python app.py">>, 8000)
       ELSE IF Has("go.mod")
       THEN RuntimeInfo("go", <<"go build -o app .">>, <<"./app">>, 8080)
       ELSE IF Has("index.html") THEN RuntimeInfo("static", <<>>, <<>>, 80)
       ELSE RuntimeInfo("unknown", <<>>, <<>>, 3000)

\* a repository with files in one directory, a root directory to detect in,
\* and at most one probe whose request fails
InitDetect ==
    /\ projects = [p \in ProjIds |-> NoProject]
    /\ hooks = {}
    /\ deployments = [d \in DepIds |-> NoRow]
    /\ tasks = [t \in TaskIds |-> NoTask]
    /\ registry = {}
    /\ containers = {}
    /\ req = IdleReq
    /\ nreq = 0
    /\ faults = 0
    /\ creating = [s \in ProjIds |-> IdleCreate]
    /\ envs = {}
    /\ api = IdleApi
    /\ \E dir \in {"", "web"}, rootDir \in {"", ".", "web"},
          names \in SUBSET {"Dockerfile", "package.json", "requirements.txt",
                            "pyproject.toml", "Pipfile", "go.mod",
                            "index.html", "yarn.lock", "next.config.js",
                            "vite.config.ts"} :
          \E failing \in {{}} \cup {{n} : n \in names} :
             LET At(n) == IF dir = "" THEN <<n>> ELSE <<dir, "/", n>>
             IN call = [fn |-> "none", files |-> {At(n) : n \in names},
                        down |-> {At(n) : n \in failing},
                        rootDir |-> rootDir,
                        out |-> RuntimeInfo("", <<>>, <<>>, 0)]

DetectCall ==
    /\ call.fn = "none"
    /\ call' = [call EXCEPT !.fn = "DetectRuntime",
                            !.out = DetectRuntime(call.files, call.down,
                                                  call.rootDir)]
    /\ UNCHANGED <<projects, hooks, deployments, tasks, registry, containers,
                   req, nreq, faults, creating, envs, api>>

SpecDetect == InitDetect /\ [][DetectCall]_vars

(* --------------------------- generateSlug alone ------------------------- *)
\* project names: every string of at most MaxTextLen characters over letters
\* of both cases, a digit, the hyphen, the space, the underscore and two
\* characters outside the slug alphabet, and names longer than MaxSlugLen
InitSlug ==
    /\ projects = [p \in ProjIds |-> NoProject]
    /\ hooks = {}
    /\ deployments = [d \in DepIds |-> NoRow]
    /\ tasks = [t \in TaskIds |-> NoTask]
    /\ registry = {}
    /\ containers = {}
    /\ req = IdleReq
    /\ nreq = 0
    /\ faults = 0
    /\ creating = [s \in ProjIds |-> IdleCreate]
    /\ envs = {}
    /\ api = IdleApi
    /\ \E name \in UNION {[1..n -> {"a", "Z", "0", "-", " ", "_", ".", "!"}] :
                              n \in 0..MaxTextLen}
                  \cup {[i \in 1..MaxSlugLen |-> "a"],
                        [i \in 1..(MaxSlugLen + 1) |-> "a"],
                        [i \in 1..(MaxSlugLen + 2) |->
                            IF i = MaxSlugLen THEN "-" ELSE "a"],
                        [i \in 1..(MaxSlugLen + 10) |->
                            IF i % 2 = 0 THEN "." ELSE "B"],
                        [i \in 1..(MaxSlugLen + 10) |->
                            IF i % 2 = 0 THEN "_" ELSE "c"]} :
          call = [fn |-> "none", name |-> name, out |-> <<>>]

GenerateSlugCall ==
    /\ call.fn = "none"
    /\ call' = [call EXCEPT !.fn = "generateSlug",
                            !.out = generateSlug(call.name)]
    /\ UNCHANGED <<projects, hooks, deployments, tasks, registry, containers,
                   req, nreq, faults, creating, envs, api>>

SpecSlug == InitSlug /\ [][GenerateSlugCall]_vars

(* =============================== claims ================================ *)
StatusOf(d) == deployments[d].status
NoTaskFor(d) == \A t \in TaskIds : t[1] = d => tasks[t] = NoTask
LiveOf(p) ==
    {d \in DepIds : deployments[d].project_id = p /\ StatusOf(d) = "live"}

Rank(status) ==
    CASE status = "pending" -> 1
      [] status = "building" -> 2
      [] status = "deploying" -> 3
      [] status = "live" -> 4
      [] status = "superseded" -> 5
      [] OTHER -> 0

\* C2: no step moves a deployment's status backward in the order pending,
\* building, deploying, live, superseded
C2_NeverBackward ==
    [][\A d \in DepIds :
          (Rank(StatusOf(d)) > 0 /\ Rank(deployments'[d].status) > 0)
          => Rank(deployments'[d].status) >= Rank(StatusOf(d))]_vars

\* C3: a failed, cancelled or superseded deployment never changes status
\* again, and a live one changes only to superseded
C3_TerminalIsFinal ==
    [][\A d \in DepIds :
          /\ StatusOf(d) \in {"failed", "cancelled", "superseded"}
                => deployments'[d].status = StatusOf(d)
          /\ StatusOf(d) = "live"
                => deployments'[d].status \in {"live", "superseded"}]_vars

\* C4: StartDeploymentBuild, SetDeploymentBuilt and SetDeploymentLive are
\* rejected, leaving the table unchanged, when the row is not in the origin
\* status of the transition (pending, building, deploying)
C4_ConditionalAdvance ==
    [][\A t \in TaskIds :
          /\ (BuildStart(t, TRUE) /\ StatusOf(t[1]) # "pending")
                => (deployments' = deployments /\ tasks'[t].pc # "work")
          /\ (BuildSetBuilt(t, TRUE) /\ StatusOf(t[1]) # "building")
                => (deployments' = deployments /\ tasks'[t].pc # "enqueue")
          /\ (DeploySetLive(t, TRUE) /\ StatusOf(t[1]) # "deploying")
                => (deployments' = deployments /\ tasks'[t].pc # "completed")
      ]_vars

\* C5: a build task delivered again for a deployment whose build has
\* succeeded leaves the row as it is and does not go on to build, and no
\* deployment ever has more than one deploy task
C5_RedeliveryIsNoOp ==
    [][\A d \in DepIds :
          /\ \A t \in TaskIds :
                (/\ t[1] = d
                 /\ tasks[t].kind = "build" /\ tasks[t].pc = "queued"
                 /\ tasks[t].retried > 0
                 /\ deployments[d].image_tag # NullImage
                 /\ tasks'[t] # tasks[t])
                => (deployments'[d] = deployments[d] /\ tasks'[t].pc # "work")
          /\ Cardinality({t \in TaskIds :
                            t[1] = d /\ tasks'[t].kind = "deploy"}) <= 1]_vars

\* C6: a webhook request answered 401 has created no deployment row and
\* enqueued no build task
C6_UnauthorizedMutatesNothing ==
    (req.pc = "done" /\ req.resp = 401) =>
        /\ deployments[req.n] = NoRow
        /\ NoTaskFor(req.n)
        /\ req.dep = 0 /\ req.task = <<0, 0>>

\* a push was answered 401 for a bad signature while rows of earlier pushes
\* exist
C6_Witness ==
    /\ req.pc = "done" /\ req.resp = 401
    /\ req.in.event = "push" /\ req.in.sig.form = "ok"
    /\ \E p \in ProjIds :
          /\ projects[p].repo_full_name = req.in.body.repo
          /\ projects[p].webhook_secret # NullSecret
    /\ \E d \in DepIds : deployments[d] # NoRow

\* the request carries the signature the source host computes: the HMAC of
\* the body under the secret of a webhook registered for the repository
HostSigned(r) ==
    /\ r.sig.form = "ok"
    /\ \E h \in hooks :
          h.repo = r.body.repo /\ r.sig.mac = HMAC(h.secret, r.body)

\* the projects of the repository whose webhook secret is stored
Hooked(repo) ==
    {p \in ProjIds : /\ projects[p] # NoProject
                     /\ projects[p].repo_full_name = repo
                     /\ projects[p].webhook_secret # NullSecret}

\* C7: a push signed by the source host that deletes the ref, has no head
\* commit, has the all-zeros SHA as after, or goes to a branch other than
\* the project's, is answered 200 and creates no row and no build task
C7_GatedPushIsSkipped ==
    (/\ req.pc = "done"
     /\ req.in.event = "push" /\ req.in.body.json
     /\ HostSigned(req.in)
     /\ \E p \in Hooked(req.in.body.repo) :
           \/ ~ShouldDeploy(req.in.body)
           \/ GetBranch(req.in.body) # projects[p].branch)
    => /\ req.resp = 200
       /\ deployments[req.n] = NoRow
       /\ NoTaskFor(req.n)

\* the handler looked the project up and went on to check the signature
ReachedVerification ==
    \/ req.pc \in {"create", "enqueue"}
    \/ /\ req.pc = "done"
       /\ req.msg \notin {"Event ignored", "Invalid push event",
                          "No associated project found"}

\* C8: for a project whose webhook secret is stored, a push passes the
\* signature check when it is signed with the webhook's secret on the source
\* host, and is answered 401 when its body or signature is any other
C8_HostSignatureAccepted ==
    (ReachedVerification /\ Hooked(req.in.body.repo) # {})
    => ((req.pc = "done" /\ req.resp = 401) <=> ~HostSigned(req.in))

NonTerminal == {"pending", "building", "deploying"}

\* C9: a cancel sets status cancelled and stamps completion exactly when
\* the row is pending, building or deploying; on any other row, or none,
\* it returns an error and leaves the table unchanged
C9_CancelOnlyNonTerminal ==
    [][\A d \in DepIds : Cancel(d) =>
          IF StatusOf(d) \in NonTerminal
          THEN /\ ~CancelDeployment(deployments, d).err
               /\ deployments' =
                    [deployments EXCEPT ![d].status = "cancelled",
                                        ![d].completed_at = TRUE]
          ELSE /\ CancelDeployment(deployments, d).err
               /\ deployments' = deployments]_vars

\* a deployment that had started was cancelled, beside a live one and a
\* failed one
C9_Witness ==
    /\ \E d \in DepIds : /\ StatusOf(d) = "cancelled"
                         /\ deployments[d].started_at
                         /\ deployments[d].completed_at
    /\ \E d \in DepIds : StatusOf(d) \in {"live", "failed", "superseded"}

\* C10: once a deployment is cancelled no step makes it deploying or live,
\* enqueues a deploy task for it, launches a container for it or
\* supersedes another deployment on its behalf
C10_CancelStopsWorkers ==
    [][\A d \in DepIds : StatusOf(d) = "cancelled" =>
          /\ deployments'[d].status \notin {"deploying", "live"}
          /\ \A t \in TaskIds : t[1] = d =>
                /\ ~(tasks[t] = NoTask /\ tasks'[t].kind = "deploy")
                /\ (tasks[t].kind = "deploy" /\ tasks[t].pc = "run"
                        /\ tasks'[t] # tasks[t])
                      => containers' \subseteq containers
                /\ (tasks[t].kind = "deploy" /\ tasks[t].pc = "supersede"
                        /\ tasks'[t] # tasks[t])
                      => \A e \in DepIds \ {d} :
                            deployments'[e].status = StatusOf(e)]_vars

\* a delivery of build task t ends with an error in this step
BuildFails(t, pcs) ==
    /\ tasks[t].kind = "build" /\ tasks[t].pc \in pcs
    /\ tasks'[t].pc \in {"queued", "archived"}

\* C11: a build-task delivery that fails in the work directory, clone,
\* Dockerfile, image build, registry push or the update to deploying leaves
\* the deployment failed with an error message and without a deploy task
C11_BuildFailureMarksFailed ==
    [][\A t \in TaskIds : BuildFails(t, {"work", "push", "setbuilt"}) =>
          /\ deployments'[t[1]].status = "failed"
          /\ deployments'[t[1]].error_message # ""
          /\ \A u \in TaskIds : u[1] = t[1] => tasks'[u].kind # "deploy"]_vars

Exhausted(t) == tasks[t].kind # "none" /\ tasks[t].pc = "archived"

\* C12: once a build or deploy task has exhausted its retries, its
\* deployment is failed
C12_ExhaustedMeansFailed ==
    \A t \in TaskIds : Exhausted(t) => StatusOf(t[1]) = "failed"

\* request r is a push of a commit to the tracked branch of project p
ValidPush(r, p) ==
    /\ r.event = "push" /\ r.body.json
    /\ ShouldDeploy(r.body)
    /\ GetBranch(r.body) = projects[p].branch

\* deployment n of project p is live and the only live one, its url is
\* stored and the project's container runs its image
HappyEnd(n, p) ==
    /\ StatusOf(n) = "live"
    /\ deployments[n].project_id = p
    /\ deployments[n].url = DeployURL(projects[p].slug, BaseDomain)
    /\ LiveOf(p) = {n}
    /\ \E c \in containers :
          /\ c.name = ContainerName(projects[p].slug)
          /\ c.image = deployments[n].image_tag
          /\ c.running

\* C13: with no failure anywhere, a push to the tracked branch of a project
\* with a stored webhook secret, signed by the source host, leads to its
\* deployment being live, alone, with container and url
C13_HappyPath ==
    \A n \in DepIds :
       (/\ req.pc = "done" /\ req.n = n
        /\ HostSigned(req.in)
        /\ \E p \in Hooked(req.in.body.repo) : ValidPush(req.in, p))
       ~> (\E p \in ProjIds : HappyEnd(n, p))

\* what a response may show of a row: everything but the value
Masked(e) ==
    [id |-> e.id, key |-> e.key, value |-> maskedValue,
     created_at |-> e.created_at]
MaskedRows(p) ==
    LET rows == GetEnvVarsByProjectID(envs, p)
    IN [i \in DOMAIN rows |-> Masked(rows[i])]
SealedValues == {e.value_encrypted : e \in envs}
Leaks(body) ==
    \E i \in DOMAIN body : body[i].value \in EnvValues \cup SealedValues

ConfiguredKey == Len(call.key) >= KeySize

\* C15: with a key of at least 32 bytes, Decrypt of what Encrypt returned
\* for v returns v without an error; Decrypt of the sealed value with one
\* byte of nonce, ciphertext or tag altered returns ErrDecryptionFail or
\* ErrInvalidData and no cleartext.
C15_RoundTripAndTamper ==
    (call.fn = "Decrypt" /\ ConfiguredKey) =>
        /\ call.tamper = "none" => call.out = [err |-> "", v |-> call.v]
        /\ call.tamper = "byte" =>
              /\ call.out.err \in {"ErrDecryptionFail", "ErrInvalidData"}
              /\ call.out.v = <<>>

\* a non-empty cleartext was sealed under a long key and a byte of its
\* ciphertext was altered before Decrypt
C15_Witness ==
    /\ call.fn = "Decrypt" /\ Len(call.key) > KeySize
    /\ call.tamper = "byte" /\ call.pos = NonceSize + 1
    /\ Len(call.v) = MaxTextLen
    /\ call.out.err = "ErrDecryptionFail"

StoredProjects == {p \in DOMAIN projects : projects[p] # NoProject}

\* ^[a-z][a-z0-9-]{0,49}$
MatchesSlugPattern(str) ==
    /\ Len(str) >= 1 /\ Len(str) <= MaxSlugLen
    /\ str[1] \in Lower
    /\ \A i \in DOMAIN str : SlugChar(str[i])

\* C16: every slug stored by HandleCreateProject matches
\* ^[a-z][a-z0-9-]{0,49}$, whatever the project name, the slug supplied in
\* the request, and the number of collision suffixes appended.
C16_SlugWellFormed ==
    \A p \in StoredProjects : MatchesSlugPattern(projects[p].slug)

\* C17: no two existing projects share a slug, also when two creation
\* requests derive the same candidate slug and both pass the SlugExists
\* check before either inserts: the UNIQUE constraint on slug lets at most
\* one of the inserts succeed.
C17_SlugsUnique ==
    \A p, q \in StoredProjects :
       p # q => projects[p].slug # projects[q].slug

\* two requests passed the check with the same slug while no project had it;
\* one inserted its row and the other's insert was rejected by the store
C17_Witness ==
    /\ faults = 0
    /\ \E s, t \in DOMAIN creating :
          /\ s # t
          /\ creating[s].project \in StoredProjects
          /\ creating[t].pc = "done" /\ creating[t].resp = 500
          /\ creating[t].slug = creating[s].slug
          /\ projects[creating[s].project].slug = creating[s].slug

\* C18: at most one project exists per repository full name in every
\* reachable state, also when two creation requests for the same repository
\* (by the same or by different users, with different slugs) run
\* concurrently.
C18_OneProjectPerRepo ==
    \A p, q \in StoredProjects :
       p # q => projects[p].repo_full_name # projects[q].repo_full_name

\* the request answered by this step came from an authenticated user
Served == api'.n # api.n /\ api'.user # NoUser

\* C19: a request on /api/projects/:id or /api/projects/:id/env by an
\* authenticated user who does not own project :id leaves the project, its
\* environment variables, its deployments and its webhook on the source host
\* unchanged and, when the project lookup succeeds, is answered 403; a request
\* for a project that does not exist is answered 404.
C19_OwnerOnly ==
    [][Served =>
         /\ (api'.id \in StoredProjects
             /\ projects[api'.id].user_id # api'.user) =>
               /\ UNCHANGED <<projects, envs, deployments, hooks>>
               /\ faults' = faults => api'.resp = 403
         /\ api'.id \notin StoredProjects => api'.resp = 404]_vars

\* another user asked to delete a project that has environment variables,
\* deployments and a webhook, and was refused
C19_Witness ==
    /\ api.op = "delete" /\ api.user = OtherUser /\ api.resp = 403
    /\ api.id \in StoredProjects
    /\ \E e \in envs : e.project_id = api.id
    /\ \E d \in DepIds : deployments[d].project_id = api.id
    /\ \E h \in hooks : h.id = projects[api.id].webhook_id

OneRowPerKey(rows) ==
    \A e, f \in rows : (e.project_id = f.project_id /\ e.key = f.key) => e = f

\* what the container-injection mapping of project p holds for key k
Injected(rows, p, k) ==
    LET m == GetEnvVarsAsMap(rows, p).result
    IN IF k \in DOMAIN m THEN m[k] ELSE NullSecret
EnvCells == (ProjIds \cup {MissingProject}) \X {e.key : e \in envs \cup envs'}

\* C20: a project has at most one row per key after any sequence of writes
\* and deletes; a successful write of a key adds a row only when the key had
\* none and otherwise replaces the sealed value in place, after which the
\* container-injection mapping holds the written value for that key and what
\* it held before for every other key; a step that is neither a successful
\* write or delete nor the deletion of the project leaves the rows as they
\* were.
C20_OneRowPerKey ==
    [][/\ OneRowPerKey(envs) /\ OneRowPerKey(envs')
       /\ (api'.n # api.n /\ api'.op = "create" /\ api'.resp = 201) =>
             /\ Injected(envs', api'.id, api'.key) = api'.val
             /\ Cardinality(envs') =
                  Cardinality(envs)
                  + (IF \E e \in envs : /\ e.project_id = api'.id
                                        /\ e.key = api'.key
                     THEN 0 ELSE 1)
             /\ \A c \in EnvCells :
                   c # <<api'.id, api'.key>> =>
                      Injected(envs', c[1], c[2]) = Injected(envs, c[1], c[2])
       /\ (api'.n # api.n /\ api'.op = "unset" /\ api'.resp = 200) =>
             /\ Injected(envs', api'.id, api'.key) = NullSecret
             /\ \A c \in EnvCells :
                   c # <<api'.id, api'.key>> =>
                      Injected(envs', c[1], c[2]) = Injected(envs, c[1], c[2])
       /\ ~(\/ api'.op = "delete"
            \/ api'.resp \in {200, 201} /\ api'.op \in {"create", "unset"})
             => envs' = envs]_vars

\* a key written by an earlier request was written again: its row is the
\* only one of its key, keeps its creation time and holds the new value
C20_Witness ==
    /\ api.op = "create" /\ api.resp = 201
    /\ \E e \in envs :
          /\ e.project_id = api.id /\ e.key = api.key
          /\ e.created_at < api.n
          /\ Decrypt(e.value_encrypted).v = api.val
    /\ Cardinality(envs) = 2
\* the key matches ^[A-Za-z][A-Za-z0-9_]{0,254}$
MatchesKeyPattern(key) ==
    \E n \in 0..254 :
       /\ Len(key) = 1 + n
       /\ key[1] \in Upper \cup Lower
       /\ \A i \in 2..(1 + n) : key[i] \in Upper \cup Lower \cup Digit \cup {"_"}

\* C21: POST /api/projects/:id/env stores a variable only if its key matches
\* ^[A-Za-z][A-Za-z0-9_]{0,254}$, so every stored row has such a key; for any
\* other key it writes no row and, when the request is the owner's and the
\* project lookup succeeds, answers 400.
C21_KeyPattern ==
    [][(api'.n # api.n /\ api'.op = "create") =>
         /\ \A e \in envs' : MatchesKeyPattern(e.key)
         /\ envs' # envs => MatchesKeyPattern(api'.key)
         /\ ~MatchesKeyPattern(api'.key) =>
               /\ envs' = envs
               /\ (/\ api'.id \in StoredProjects
                   /\ projects[api'.id].user_id = api'.user
                   /\ faults' = faults) => api'.resp = 400]_vars

\* the owner stored a variable under a key of 255 characters and was then
\* refused one of 256
C21_Witness ==
    /\ api.op = "create" /\ api.resp = 400 /\ Len(api.key) = 255 + 1
    /\ api.id \in StoredProjects /\ projects[api.id].user_id = api.user
    /\ \E e \in envs : e.project_id = api.id /\ Len(e.key) = 255
    /\ \A e \in envs : e.key # api.key

\* the rows of the detection table other than the last, in probe order
ProbeTable ==
    <<RuntimeInfo("docker", <<>>, <<>>, 3000) @@ [file |-> "Dockerfile"],
      RuntimeInfo("nodejs", <<>>, <<>>, 3000) @@ [file |-> "package.json"],
      RuntimeInfo("python", <<"pip install -r requirements.txt">>,
                  <<"python app.py">>, 8000) @@ [file |-> "requirements.txt"],
      RuntimeInfo("python", <<"pip install .">>, <<"python -m app">>, 8000)
          @@ [file |-> "pyproject.toml"],
      RuntimeInfo("python", <<"pipenv install">>,
                  <<"pipenv run python app.py">>, 8000) @@ [file |-> "Pipfile"],
      RuntimeInfo("go", <<"go build -o app .">>, <<"./app">>, 8080)
          @@ [file |-> "go.mod"],
      RuntimeInfo("static", <<>>, <<>>, 80) @@ [file |-> "index.html"]>>

\* the probes that match: the file is at the working directory and the
\* request for it is answered
Matching ==
    LET wd == IF call.rootDir \in {"", "."} THEN "" ELSE call.rootDir
        At(n) == IF wd = "" THEN <<n>> ELSE <<wd, "/", n>>
    IN {i \in DOMAIN ProbeTable :
          /\ At(ProbeTable[i].file) \in call.files
          /\ At(ProbeTable[i].file) \notin call.down}

C23_SupersedeFrame ==
    [][\A p \in StoreProjects, except \in DepIds \cup {0}, ok \in BOOLEAN :
          SupersedeCall(p, except, ok) =>
             LET hit == {d \in DOMAIN deployments :
                           /\ ok
                           /\ deployments[d].project_id = p
                           /\ deployments[d].status = "live"
                           /\ d # except}
             IN /\ DOMAIN deployments' = DOMAIN deployments
                /\ \A d \in hit :
                      /\ deployments'[d].status = "superseded"
                      /\ [deployments'[d] EXCEPT !.status = "live",
                                                 !.completed_at = FALSE]
                           = [deployments[d] EXCEPT !.completed_at = FALSE]
                /\ \A d \in DOMAIN deployments \ hit :
                      deployments'[d] = deployments[d]]_vars

\* one call superseded a live deployment of the project and left alone the
\* excepted live deployment of the project
C23_Witness ==
    /\ call.fn = "SupersededOldDeployments"
    /\ \E d, e \in DepIds :
          /\ e = call.except /\ d # e
          /\ call.before[d].status = "live" /\ StatusOf(d) = "superseded"
          /\ call.before[d].project_id = call.project
          /\ call.before[e].project_id = call.project
          /\ call.before[e].status = "live" /\ StatusOf(e) = "live"

ProjectsOf(repo) ==
    {p \in StoredProjects : projects[p].repo_full_name = repo}

\* C27: HandleGitHubWebhook decides in a fixed order. An event that is not a
\* push is answered 200 "Event ignored" whatever its body and signature; a
\* push for a repository with no project is answered 200 whatever its
\* signature; a push for a project without a stored webhook secret is
\* answered 401; a push whose signature is missing or is not the one the
\* source host computes is answered 401 even when it would fail gating;
\* only pushes carrying the source host's signature reach gating (a 200 for
\* a skipped push, or the creation of a deployment). Stated for requests
\* whose project lookup succeeds.
C27_DecisionOrder ==
    [][(req.pc = "idle" /\ req'.pc # "idle" /\ faults' = faults) =>
         LET r == req'.in
             known == ProjectsOf(r.body.repo)
             gated == \/ req'.pc = "create"
                      \/ req'.msg \in
                           {"Push event does not trigger deployment",
                            "Push to non-configured branch, deployment skipped"}
         IN /\ r.event # "push" =>
                  req'.resp = 200 /\ req'.msg = "Event ignored"
            /\ (r.event = "push" /\ r.body.json /\ known = {}) =>
                  req'.resp = 200 /\ req'.msg = "No associated project found"
            /\ (/\ r.event = "push" /\ r.body.json /\ known # {}
                /\ \A p \in known : projects[p].webhook_secret = NullSecret)
                  => req'.resp = 401
            /\ (r.event = "push" /\ r.body.json /\ known # {}
                /\ ~HostSigned(r)) => req'.resp = 401
            /\ gated => HostSigned(r)]_vars

\* the rows and the tasks a step adds
NewRows == {d \in DepIds : deployments[d] = NoRow /\ deployments'[d] # NoRow}
NewTasks == {t \in TaskIds : tasks[t] = NoTask /\ tasks'[t] # NoTask}

C29_NoWebhookNoDeploys ==
    [][/\ \A s \in DOMAIN creating :
             (/\ creating[s].pc = "insert" /\ creating[s].hook = 0
              /\ creating'[s] # creating[s] /\ faults' = faults
              /\ ~SlugExists(projects, creating[s].slug)) =>
                /\ creating'[s].pc = "done" /\ creating'[s].resp = 201
                /\ creating'[s].project \in DOMAIN projects
                /\ projects[creating'[s].project] = NoProject
                /\ LET row == projects'[creating'[s].project]
                   IN /\ row.repo_full_name = creating[s].repo
                      /\ row.user_id = creating[s].user
                      /\ row.webhook_id = 0
                      /\ row.webhook_secret = NullSecret
       /\ (/\ req.pc = "idle" /\ req'.pc # "idle" /\ faults' = faults
           /\ req'.in.event = "push" /\ req'.in.body.json
           /\ ProjectsOf(req'.in.body.repo) # {}
           /\ \A p \in ProjectsOf(req'.in.body.repo) :
                 projects[p].webhook_secret = NullSecret) =>
             /\ req'.pc = "done" /\ req'.resp = 401
             /\ deployments' = deployments /\ tasks' = tasks]_vars

\* a project was created although its webhook could not be, and a later
\* push of a commit to its branch, signed, was answered 401
C29_Witness ==
    /\ req.pc = "done" /\ req.resp = 401
    /\ req.in.sig.form = "ok"
    /\ \E p \in ProjectsOf(req.in.body.repo) :
          /\ ValidPush(req.in, p)
          /\ projects[p].webhook_id = 0
          /\ projects[p].webhook_secret = NullSecret
    /\ \A h \in hooks : h.repo # req.in.body.repo
    /\ \E s \in DOMAIN creating :
          creating[s].pc = "done" /\ creating[s].resp = 201
    /\ \A d \in DepIds : deployments[d] = NoRow

\* C30: in every reachable state every project has its webhook identifier
\* and its webhook secret both set or both null, whatever the outcome of
\* the webhook's creation, the sealing of the secret and the store update
\* during project creation.
C30_WebhookFieldsTogether ==
    \A p \in StoredProjects :
       (projects[p].webhook_id = 0) <=> (projects[p].webhook_secret = NullSecret)

\* the webhook exists on the source host, the project was answered 201, and
\* neither its id nor its secret was stored because sealing or the update
\* failed
C30_Witness ==
    \E s \in DOMAIN creating :
       /\ creating[s].pc = "done" /\ creating[s].resp = 201
       /\ creating[s].hook # 0
       /\ \E h \in hooks : h.id = creating[s].hook
       /\ creating[s].project \in StoredProjects
       /\ projects[creating[s].project].webhook_id = 0
       /\ projects[creating[s].project].webhook_secret = NullSecret

\* C31: once DELETE /api/projects/:id by the owner is answered 200, the
\* project row, every deployment row and every environment variable of the
\* project are gone, and DeleteWebhook was called for the webhook id the
\* project had; a failing teardown does not prevent the deletion
C31_DeleteCascades ==
    [][(api'.op = "delete" /\ api'.n # api.n /\ api'.resp = 200) =>
          LET id == api'.id IN
          /\ projects[id].user_id = api'.user
          /\ projects'[id] = NoProject
          /\ \A d \in DepIds : deployments'[d].project_id # id
          /\ \A e \in envs' : e.project_id # id
          /\ projects[id].webhook_id # 0 =>
                api'.teardown = projects[id].webhook_id]_vars

\* the slug of a name by rule: characters are mapped one by one (other says
\* what becomes of a character outside [a-z0-9-] that is neither a space nor
\* an underscore: "hyphen" or "removed"), a hyphen that follows a hyphen is
\* dropped, the hyphens at both ends are cut off, and at most 50 characters
\* are kept
SlugByRule(name, other) ==
    LET mapped ==
            [i \in DOMAIN name |->
                LET c == name[i] IN
                IF c \in Lower \cup Digit \cup {"-"} THEN <<c>>
                ELSE IF \E j \in 1..26 : UpperSeq[j] = c
                     THEN <<LowerSeq[CHOOSE j \in 1..26 : UpperSeq[j] = c]>>
                ELSE IF c \in {" ", "_"} \/ other = "hyphen" THEN <<"-">>
                ELSE <<>>]
        kept == {i \in DOMAIN name : mapped[i] # <<>>}
        prev(i) == {j \in kept : j < i}
        single == {i \in kept :
                     ~(/\ mapped[i] = <<"-">>
                       /\ prev(i) # {}
                       /\ mapped[CHOOSE j \in prev(i) :
                                    \A k \in prev(i) : k <= j] = <<"-">>)}
        inner == {i \in single :
                    /\ \E j \in single : j <= i /\ mapped[j] # <<"-">>
                    /\ \E j \in single : j >= i /\ mapped[j] # <<"-">>}
        rank(i) == Cardinality({j \in inner : j <= i})
        size == IF Cardinality(inner) > 50 THEN 50 ELSE Cardinality(inner)
    IN [r \in 1..size |-> mapped[CHOOSE i \in inner : rank(i) = r][1]]

\* C32 as stated: the candidate slug is the name lowercased, every character
\* outside [a-z0-9-] replaced by '-', runs of '-' collapsed, leading and
\* trailing '-' trimmed, truncated to 50 characters
C32_SlugHyphenatesAll ==
    call.fn = "generateSlug" => call.out = SlugByRule(call.name, "hyphen")

\* C32 (amended): the candidate slug is the name lowercased, spaces and
\* underscores replaced by '-', every other character outside [a-z0-9-]
\* removed, runs of '-' collapsed, leading and trailing '-' trimmed,
\* truncated to 50 characters
C32_SlugByRule ==
    call.fn = "generateSlug" => call.out = SlugByRule(call.name, "removed")

\* a name of letters and dots in turn: the dots are removed and the letters,
\* lowercased, follow one another
C32_Witness ==
    /\ call.fn = "generateSlug"
    /\ Len(call.name) = MaxSlugLen + 10
    /\ call.name[1] = "B" /\ call.name[2] = "."
    /\ call.out = [i \in 1..((MaxSlugLen + 10) \div 2) |-> "b"]

\* the number of times the handler of task t has been started: once for
\* each retry already counted, and once more while it runs or after it ended
Executions(t) ==
    IF tasks[t].pc \in {"none", "queued"} THEN tasks[t].retried
    ELSE tasks[t].retried + 1

\* C33: every build task and every deploy task is executed at most 3 times
\* in total, the first delivery included, and a task the broker has
\* completed or given up is never delivered again
C33_AtMostThreeExecutions ==
    [][\A t \in TaskIds :
          /\ tasks'[t].kind \in {"build", "deploy"} => Executions(t)' <= 3
          /\ tasks[t].pc \in {"completed", "archived"} =>
                tasks'[t] = tasks[t]]_vars

\* C34: a live deployment has its image tag, its container identifier and
\* its url set, and the url is https://<project slug>.<base domain>; a
\* deploying deployment has its image tag set
C34_LiveFieldsSet ==
    \A d \in DepIds :
       /\ StatusOf(d) = "live" =>
             /\ deployments[d].image_tag # NullImage
             /\ deployments[d].container_id # 0
             /\ deployments[d].url # <<>>
             /\ deployments[d].url =
                   <<"https", projects[deployments[d].project_id].slug,
                     BaseDomain>>
       /\ StatusOf(d) = "deploying" => deployments[d].image_tag # NullImage

\* one deployment of a project is live with the container its deploy task
\* started, while a later one of the same project is deploying
C34_Witness ==
    \E d, e \in DepIds :
       /\ StatusOf(d) = "live" /\ StatusOf(e) = "deploying"
       /\ deployments[d].project_id = deployments[e].project_id
       /\ \E c \in containers : c.id = deployments[d].container_id
       /\ deployments[e].image_tag \in registry

\* a deploy task of project p is being executed
DeployInProgress(p) ==
    \E t \in TaskIds :
       /\ tasks[t].kind = "deploy" /\ tasks[t].project_id = p
       /\ tasks[t].pc \notin {"queued", "completed", "archived"}

C36_NoRowWithoutTask ==
    (req.pc = "done" /\ req.resp # 202) => deployments[req.n] = NoRow

\* C37: a deploy task of deployment D exists only once D's image is in the
\* registry and D's row has been set to deploying with its image tag; the
\* task's image tag is the row's, <registry>/<project id>:<first 8
\* characters of the commit SHA>
C37_DeployTaskAfterBuilt ==
    /\ \A t \in TaskIds :
          tasks[t].kind = "deploy" =>
             LET row == deployments[tasks[t].dep] IN
             /\ row.status \notin {"none", "pending"}
             /\ row.image_tag # NullImage
             /\ row.image_tag \in registry
             /\ tasks[t].image_tag = row.image_tag
             /\ row.image_tag =
                   <<RegistryURL, row.project_id, Prefix(row.commit_sha, 8)>>
    /\ \A d \in DepIds :
          deployments[d].image_tag # NullImage =>
             /\ deployments[d].image_tag \in registry
             /\ deployments[d].status \notin {"none", "pending"}

\* the deploy task of a deployment has just been enqueued: the build task
\* completed, the row is deploying and the image is in the registry
C37_Witness ==
    \E t \in TaskIds :
       /\ tasks[t].kind = "deploy" /\ tasks[t].pc = "queued"
       /\ tasks[t].retried = 0
       /\ StatusOf(tasks[t].dep) = "deploying"
       /\ tasks[t].image_tag \in registry
       /\ tasks[t].image_tag =
             <<RegistryURL, tasks[t].project_id,
               Prefix(CommitOf(tasks[t].dep), 8)>>
       /\ \E u \in TaskIds : /\ tasks[u].kind = "build"
                              /\ tasks[u].dep = tasks[t].dep
                              /\ tasks[u].pc = "completed"

\* C38: a live, failed, cancelled or superseded deployment has a completion
\* timestamp, a failed one has an error message, and a building, deploying,
\* live, superseded or failed one has a build-start timestamp
C38_TimestampsSet ==
    \A d \in DepIds :
       /\ StatusOf(d) \in {"live", "failed", "cancelled", "superseded"} =>
             deployments[d].completed_at
       /\ StatusOf(d) = "failed" => deployments[d].error_message # ""
       /\ StatusOf(d) \in {"building", "deploying", "live", "superseded",
                           "failed"} => deployments[d].started_at

\* one deployment failed after its build had started, another was
\* cancelled before its build started
C38_Witness ==
    \E d, e \in DepIds :
       /\ StatusOf(d) = "failed" /\ deployments[d].started_at
       /\ deployments[d].completed_at
       /\ deployments[d].error_message = "failed to clone repository"
       /\ StatusOf(e) = "cancelled" /\ ~deployments[e].started_at
       /\ deployments[e].completed_at

\* C39: once a creation request has ended, a webhook it created is
\* registered on the source host only if a project row of that repository
\* stores the webhook's id: after a failed insert, or a failure to seal or
\* store the secret, no webhook created by the request remains registered
C39_NoOrphanWebhook ==
    \A s \in DOMAIN creating :
       (creating[s].pc = "done" /\ creating[s].hook # 0) =>
          \A h \in hooks :
             (h.id = creating[s].hook /\ h.repo = creating[s].repo) =>
                \E q \in StoredProjects :
                   /\ projects[q].repo_full_name = h.repo
                   /\ projects[q].webhook_id = h.id

====
